---- MODULE Spec2Model ----
(***************************************************************************)
(* A model of RetryService (src/src/retry-service/Retry.service.ts): the   *)
(* recursive attempt engine, the copy-on-write report builder, the policy  *)
(* validation and the errors the engine raises.                            *)
(*                                                                         *)
(* One retry() call is a small machine.  Its control position is pc:       *)
(*   "idle"      retry() has not been called                               *)
(*   "attempt"   attempt() is about to be entered                          *)
(*   "fn"        the operation has been invoked and has not settled        *)
(*   "delay"     timer.delay(currentDelay) is being awaited                *)
(*   "throwing"  an error is propagating out of an attempt() frame         *)
(*   "resolved", "rejected"   the promise returned by retry() has settled  *)
(* attempt() calls itself in two ways.  After an error it does so from its *)
(* catch block (return this.handleError(...)), which no try encloses: the  *)
(* new frame simply replaces the old one.  After a retryable result it     *)
(* does so inside its try block (return await this.handleRetryableResult): *)
(* the calling frame stays on `stack` and its catch block receives         *)
(* whatever the inner frames throw.                                        *)
(***************************************************************************)
EXTENDS Integers, Sequences, FiniteSets, TLC

\* ------------------------------------------------------------------ bounds
MaxRetries == 1
MaxTime == 2
\* In one call the operation throws at most MaxThrows times and returns a
\* result that retryOnResult flags at most MaxFlagged times.  Beyond that, an
\* operation that returned no flagged result can throw on each of its first
\* retries + 1 calls, and one that never threw can return a flagged result on
\* each of them.  A result that is not flagged can always be returned.
MaxThrows == 2
MaxFlagged == 1
MaxReasons == 2
MaxObjects == 3

\* ------------------------------------------------------- program constants
DefaultThreshold == 500

\* ---------------------------------------------------------- optional values
\* An optional property is a sequence: <<>> when undefined, <<x>> when set.
Absent == <<>>
Some(x) == <<x>>
IsPresent(o) == o # <<>>
Get(o) == o[1]

Max(a, b) == IF a >= b THEN a ELSE b
Last(s) == s[Len(s)]

\* ------------------------------------------------------------------ values
Undefined == [kind |-> "undefined"]

\* An Error instance thrown by invocation number n of the operation.
OpError(m, n) == [kind |-> "Error", message |-> [text |-> m], cause |-> Undefined, at |-> n]
\* A value that is not an Error instance, thrown by invocation number n.
OpThrownObject(n) == [kind |-> "object", id |-> "thrown", at |-> n, json |-> 13, ctor |-> "Object"]

\* Values the operation can return.
OkResult == [kind |-> "string", id |-> "ok"]
PendingResult == [kind |-> "object", id |-> "pending", json |-> 20, ctor |-> "Object"]
\* A pending result that refers to itself: JSON.stringify throws on it (json < 0).
CircularResult == [kind |-> "object", id |-> "pending", json |-> -1, ctor |-> "Object"]
Results == {OkResult, PendingResult, CircularResult}

\* The values the sanitization tests record as retry reasons.  json is the
\* length of JSON.stringify(value); ctor is value.constructor?.name, "" when
\* there is no constructor or it has no name.
StringValue == [kind |-> "string", id |-> "test string"]
NumberValue == [kind |-> "number", id |-> "123"]
NullValue == [kind |-> "null"]
SmallObject == [kind |-> "object", id |-> "small", json |-> 18, ctor |-> "Object"]
AtThresholdObject == [kind |-> "object", id |-> "filler", json |-> 500, ctor |-> "Object"]
OverThresholdObject == [kind |-> "object", id |-> "filler", json |-> 501, ctor |-> "Object"]
LargeObject == [kind |-> "object", id |-> "props100", json |-> 1881, ctor |-> "Object"]
CustomClassObject == [kind |-> "object", id |-> "largeData", json |-> 1016, ctor |-> "CustomClass"]
NoConstructorObject == [kind |-> "object", id |-> "largeData", json |-> 1016, ctor |-> ""]
ErrorMessages == {"transient", "fatal"}

ErrorKinds == {"Error", "TypeError", "RetryError", "RetryTimeoutError", "RetryAttemptsExceededError",
               "RetryConfigurationError", "RetryReportValidationError"}
InstanceOfError(e) == e.kind \in ErrorKinds

RetryTimeoutError(msg, cause) == [kind |-> "RetryTimeoutError", message |-> [text |-> msg], cause |-> cause]
RetryAttemptsExceededError(msg, cause) == [kind |-> "RetryAttemptsExceededError", message |-> msg, cause |-> cause]
RetryConfigurationError(msg) == [kind |-> "RetryConfigurationError", message |-> [text |-> msg], cause |-> Undefined]
RetryReportValidationError(msg) == [kind |-> "RetryReportValidationError", message |-> [text |-> msg], cause |-> Undefined]

\* The TypeError JSON.stringify throws on a circular structure.
StringifyTypeError ==
    [kind |-> "TypeError", message |-> [text |-> "Converting circular structure to JSON"],
     cause |-> Undefined]

\* String(x) for a thrown value that is not an Error.
StringOf(x) == [text |-> "[object Object]", of |-> x]

\* ----------------------------------------------------------- the predicates
\* retryOnError is absent or the predicate  e => e.message === "transient".
RetryOnErrorChoices == {"absent", "transientOnly"}
MessageText(e) == IF InstanceOfError(e) THEN e.message.text ELSE "undefined"
ApplyRetryOnError(p, e) == MessageText(e) = "transient"

\* retryOnResult is absent or  r => r.status === "pending".
RetryOnResultChoices == {"absent", "pending"}
ApplyRetryOnResult(p, r) == r.id = "pending"

\* --------------------------------------------------------- RetryReportBuilder
NewRetryReportBuilder(startTime) ==
    [startTime |-> startTime, totalTime |-> 0, attempts |-> 0, errors |-> <<>>,
     delays |-> <<>>, retryingOperationSucceeded |-> FALSE,
     timedOut |-> Absent, retryReasons |-> Absent]

withAttempt(b) == [b EXCEPT !.attempts = b.attempts + 1]

\* A variant that records the thrown value itself.
withError_Unwrapped(b, error) == [b EXCEPT !.errors = Append(b.errors, error)]

withError(b, error) ==
    LET errorObj == IF InstanceOfError(error) THEN error
                    ELSE [kind |-> "Error", message |-> StringOf(error), cause |-> Undefined]
    IN [b EXCEPT !.errors = Append(b.errors, errorObj)]

\* A variant that records only the delays that are waited for.
withDelay_SkipsZero(b, d) == IF d = 0 THEN b ELSE [b EXCEPT !.delays = Append(b.delays, d)]

withDelay(b, d) == [b EXCEPT !.delays = Append(b.delays, d)]

IsObject(v) == v.kind \in ErrorKinds \cup {"object"}
\* JSON.stringify(value).length.  Only own enumerable properties are written:
\* none for a plain Error ("{}"), name and (when defined) cause for a RetryError.
NameLength(kind) ==
    CASE kind = "RetryError" -> 10
      [] kind = "RetryTimeoutError" -> 17
      [] kind = "RetryAttemptsExceededError" -> 26
      [] kind = "RetryConfigurationError" -> 23
      [] OTHER -> 26
RECURSIVE JsonLength(_)
JsonLength(v) ==
    IF v.kind = "object" THEN v.json
    ELSE IF v.kind \in {"Error", "TypeError"} THEN 2
    ELSE IF v.cause = Undefined THEN NameLength(v.kind) + 11
    ELSE NameLength(v.kind) + 20 + JsonLength(v.cause)
\* value.constructor?.name || "Object"
ConstructorName(v) ==
    IF v.kind # "object" THEN v.kind
    ELSE IF v.ctor = "" THEN "Object" ELSE v.ctor

\* A variant that applies the threshold even when sanitization is disabled.
sanitizeForLogging_AlwaysEnabled(value, shouldSanitize, threshold) ==
    IF value.kind \in {"undefined", "null"} \/ ~IsObject(value)
    THEN value
    ELSE IF JsonLength(value) < 0
         THEN [kind |-> "string", id |-> "[Unstringifiable Object]"]
         ELSE IF JsonLength(value) <= threshold
              THEN value
              ELSE [kind |-> "string", id |-> "[Large _: _ chars]",
                    objType |-> ConstructorName(value), chars |-> JsonLength(value)]

\* A variant that names every large value "Object".
sanitizeForLogging_GenericName(value, shouldSanitize, threshold) ==
    IF ~shouldSanitize \/ value.kind \in {"undefined", "null"} \/ ~IsObject(value)
    THEN value
    ELSE IF JsonLength(value) < 0
         THEN [kind |-> "string", id |-> "[Unstringifiable Object]"]
         ELSE IF JsonLength(value) <= threshold
              THEN value
              ELSE [kind |-> "string", id |-> "[Large _: _ chars]",
                    objType |-> "Object", chars |-> JsonLength(value)]

\* A variant that lets the failure of JSON.stringify leave the value as it is.
sanitizeForLogging_NoPlaceholder(value, shouldSanitize, threshold) ==
    IF ~shouldSanitize \/ value.kind \in {"undefined", "null"} \/ ~IsObject(value)
    THEN value
    ELSE IF JsonLength(value) <= threshold
         THEN value
         ELSE [kind |-> "string", id |-> "[Large _: _ chars]",
               objType |-> ConstructorName(value), chars |-> JsonLength(value)]

sanitizeForLogging(value, shouldSanitize, threshold) ==
    IF ~shouldSanitize \/ value.kind \in {"undefined", "null"} \/ ~IsObject(value)
    THEN value
    ELSE IF JsonLength(value) < 0
         THEN [kind |-> "string", id |-> "[Unstringifiable Object]"]
         ELSE IF JsonLength(value) <= threshold
              THEN value
              ELSE [kind |-> "string", id |-> "[Large _: _ chars]",
                    objType |-> ConstructorName(value), chars |-> JsonLength(value)]

withRetryReason(b, type, value, sanitize, threshold) ==
    LET reasons == IF IsPresent(b.retryReasons) THEN Get(b.retryReasons) ELSE <<>>
        sanitizedValue == sanitizeForLogging(value, sanitize, threshold)
    IN [b EXCEPT !.retryReasons = Some(Append(reasons, [type |-> type, value |-> sanitizedValue]))]

withSuccess(b, currentTime) ==
    [b EXCEPT !.retryingOperationSucceeded = TRUE, !.totalTime = currentTime - b.startTime]

\* A variant that reports the reading of the timeout, not the time elapsed.
withTimeout_Absolute(b, currentTime) ==
    [b EXCEPT !.timedOut = Some(TRUE), !.totalTime = currentTime]

withTimeout(b, currentTime) ==
    [b EXCEPT !.timedOut = Some(TRUE), !.totalTime = currentTime - b.startTime]

withFailure(b, currentTime) ==
    [b EXCEPT !.retryingOperationSucceeded = FALSE, !.totalTime = currentTime - b.startTime]

\* build(): the validation error it throws, or Undefined when it returns.
buildError(b) ==
    IF b.totalTime < 0
    THEN RetryReportValidationError("Invalid report: totalTime cannot be negative")
    ELSE IF b.attempts < 0
         THEN RetryReportValidationError("Invalid report: attempts cannot be negative")
         ELSE Undefined

build(b) == b

\* ------------------------------------------------------------------ policies
Times == 0..MaxTime
CallIds == {1, 2}

\* The policies a call is made with.  CorePolicies: no timeout, no backoff,
\* every mix of the other options; TimeoutPolicies: a timeout of 1;
\* SilentPolicies: no onComplete; BackoffPolicies: two retries, with and
\* without backoff; EdgePolicies: every mix of valid and invalid numbers.
CorePolicies ==
    [retries : 0..MaxRetries, delay : {Absent, Some(1)}, exponentialBackoff : {FALSE},
     retryOnError : RetryOnErrorChoices, retryOnResult : RetryOnResultChoices,
     timeout : {Absent}, onComplete : {"returns"},
     sanitizeRetryReasons : {Absent}, sanitizationThreshold : {Absent}]

TimeoutPolicies ==
    [retries : {0, 1}, delay : {Absent}, exponentialBackoff : {FALSE},
     retryOnError : RetryOnErrorChoices, retryOnResult : RetryOnResultChoices,
     timeout : {Some(1)}, onComplete : {"returns"},
     sanitizeRetryReasons : {Absent}, sanitizationThreshold : {Absent}]

SilentPolicies ==
    [retries : 0..MaxRetries, delay : {Absent}, exponentialBackoff : {FALSE},
     retryOnError : RetryOnErrorChoices, retryOnResult : {"absent"},
     timeout : {Absent, Some(1)}, onComplete : {"absent"},
     sanitizeRetryReasons : {Absent}, sanitizationThreshold : {Absent}]

BackoffPolicies ==
    [retries : {2}, delay : {Some(2)}, exponentialBackoff : BOOLEAN,
     retryOnError : RetryOnErrorChoices, retryOnResult : RetryOnResultChoices,
     timeout : {Absent}, onComplete : {"returns"},
     sanitizeRetryReasons : {Absent}, sanitizationThreshold : {Absent}]

EdgePolicies ==
    [retries : {-1, 0}, delay : {Absent, Some(-1), Some(0), Some(1)},
     exponentialBackoff : {FALSE},
     retryOnError : {"absent"}, retryOnResult : {"absent"},
     timeout : {Absent, Some(-1), Some(0), Some(1)}, onComplete : {"returns"},
     sanitizeRetryReasons : {Absent}, sanitizationThreshold : {Absent, Some(-1), Some(0)}]

Policies ==
    CorePolicies \cup TimeoutPolicies \cup SilentPolicies \cup BackoffPolicies \cup EdgePolicies

DefaultPolicy ==
    [retries |-> 0, delay |-> Absent, exponentialBackoff |-> FALSE,
     retryOnError |-> "absent", retryOnResult |-> "absent", timeout |-> Absent,
     onComplete |-> "absent", sanitizeRetryReasons |-> Absent,
     sanitizationThreshold |-> Absent]

\* The policies of two calls made on one service: one retry after a delay of
\* 1, or no retry and a timeout of 1.
ConcurrentPolicies ==
    {[DefaultPolicy EXCEPT !.retries = 1, !.delay = Some(1), !.onComplete = "returns"],
     [DefaultPolicy EXCEPT !.timeout = Some(1), !.onComplete = "returns"]}

\* ------------------------------------------------------------------- state
VARIABLES
    call,      \* call[c]: the state of retry() call c (fields below)
    clock,     \* the last value timer.now() returned
    timer,     \* "monotonic": now() never decreases; "arbitrary": any reading
    logger,    \* the LogHandler of the service: its methods "return" or "throw"
    callers,   \* the calls that are made
    heap       \* the builders, reports and arrays a program allocated by hand

vars == <<call, clock, timer, logger, callers, heap>>

\* The state of a call before retry() is entered with policy o.
IdleCall(o) ==
    [pc |-> "idle", options |-> o, retriesLeft |-> 0, delay |-> 0, timeout |-> Absent,
     sanitizationThreshold |-> 0, reportBuilder |-> NewRetryReportBuilder(0),
     stack |-> <<>>, thrown |-> Undefined, result |-> Undefined, currentDelay |-> 0,
     nowReads |-> 0, invocations |-> 0, throws |-> 0, flagged |-> 0,
     history |-> <<>>]

\* JavaScript objects with identity, for programs that hold builders and
\* reports themselves: arrays[a] is the content of the array at address a,
\* reports[r] a report object whose errors, delays and retryReasons fields
\* are array addresses (0: undefined), builders[b] the address of the report
\* builder b wraps, outcomes[k] what the k-th build() did.
EmptyHeap == [arrays |-> <<>>, reports |-> <<>>, builders |-> <<>>, outcomes |-> <<>>]

\* A variant in which now() may return less than it returned before.
Readings_Decreasing(prev) == Times

\* The values timer.now() can return after it returned prev.
Readings(prev) == {t \in Times : timer = "arbitrary" \/ t >= prev}

Log(s, e) == [s EXCEPT !.history = Append(@, e)]
ReadNow(s, t) == [Log(s, [ev |-> "now", t |-> t]) EXCEPT !.nowReads = @ + 1]
Throw(s, e) == [s EXCEPT !.pc = "throwing", !.thrown = e]

\* this.logger.debug(...): the service calls the injected LogHandler directly.
\* A handler that throws does so on every call; the calls in
\* handleRetryableResult, handleNonRetryableError and retryAfterError are then
\* never reached, those of attempt(), handleTimeout and handleError are.
LoggerFailure == [kind |-> "Error", message |-> [text |-> "logger failed"], cause |-> Undefined]
LoggerThrows == logger = "throws"

\* --------------------------------------------------------------- RetryService
\* A variant that accepts a timeout of 0.
validateOptions_ZeroTimeout(o) ==
    IF o.retries < 0
    THEN RetryConfigurationError("Negative retries")
    ELSE IF IsPresent(o.delay) /\ Get(o.delay) < 0
    THEN RetryConfigurationError("Delay cannot be negative")
    ELSE IF IsPresent(o.timeout) /\ Get(o.timeout) < 0
    THEN RetryConfigurationError("Timeout must be greater than zero")
    ELSE IF IsPresent(o.sanitizationThreshold) /\ Get(o.sanitizationThreshold) < 0
    THEN RetryConfigurationError("Sanitization threshold cannot be negative")
    ELSE Undefined

\* validateOptions: the RetryConfigurationError it throws, or Undefined.
validateOptions(o) ==
    IF o.retries < 0
    THEN RetryConfigurationError("Negative retries")
    ELSE IF IsPresent(o.delay) /\ Get(o.delay) < 0
    THEN RetryConfigurationError("Delay cannot be negative")
    ELSE IF IsPresent(o.timeout) /\ Get(o.timeout) <= 0
    THEN RetryConfigurationError("Timeout must be greater than zero")
    ELSE IF IsPresent(o.sanitizationThreshold) /\ Get(o.sanitizationThreshold) < 0
    THEN RetryConfigurationError("Sanitization threshold cannot be negative")
    ELSE Undefined

\* options.timeout ? ... : null  (undefined and 0 are falsy)
Truthy(o) == IsPresent(o) /\ Get(o) # 0

calculateDelay(o, retriesLeft, baseDelay) ==
    IF o.exponentialBackoff THEN baseDelay * (o.retries - retriesLeft + 1) ELSE baseDelay

\* A variant that times out at the deadline, not only past it.
isTimedOut_AtDeadline(timeout, now) == Truthy(timeout) /\ now >= Get(timeout)

isTimedOut(timeout, now) == Truthy(timeout) /\ now > Get(timeout)

\* The Error a throwing onComplete callback throws.
OnCompleteFailure == [kind |-> "Error", message |-> [text |-> "onComplete failed"], cause |-> Undefined]
OnCompleteThrows(s) == s.options.onComplete = "throws"

\* if (options.onComplete) options.onComplete(finalReport)
invokeOnComplete(s, finalReport) ==
    IF s.options.onComplete = "absent" THEN s
    ELSE Log(s, [ev |-> "onComplete", report |-> finalReport])

Finalize(s, kind, finalReport) == Log(s, [ev |-> "finalize", kind |-> kind, report |-> finalReport])

\* A variant that starts timer.delay and does not await it.
ScheduleAttempt_DelayNotAwaited(s, retriesLeft, currentDelay, retryReportBuilder) ==
    LET s1 == [s EXCEPT !.retriesLeft = retriesLeft - 1,
                        !.reportBuilder = retryReportBuilder,
                        !.currentDelay = currentDelay]
        s2 == Log(s1, [ev |-> "retry", currentDelay |-> currentDelay])
    IN IF currentDelay # 0
       THEN [Log(s2, [ev |-> "delay", ms |-> currentDelay]) EXCEPT !.pc = "attempt"]
       ELSE [s2 EXCEPT !.pc = "attempt"]

\* A variant that calls timer.delay whatever the delay is, 0 included.
ScheduleAttempt_AlwaysWaits(s, retriesLeft, currentDelay, retryReportBuilder) ==
    LET s1 == [s EXCEPT !.retriesLeft = retriesLeft - 1,
                        !.reportBuilder = retryReportBuilder,
                        !.currentDelay = currentDelay]
        s2 == Log(s1, [ev |-> "retry", currentDelay |-> currentDelay])
    IN [Log(s2, [ev |-> "delay", ms |-> currentDelay]) EXCEPT !.pc = "delay"]

\* A variant that does not wait between attempts when the call has a deadline.
ScheduleAttempt_NoWaitUnderDeadline(s, retriesLeft, currentDelay, retryReportBuilder) ==
    LET s1 == [s EXCEPT !.retriesLeft = retriesLeft - 1,
                        !.reportBuilder = retryReportBuilder,
                        !.currentDelay = currentDelay]
        s2 == Log(s1, [ev |-> "retry", currentDelay |-> currentDelay])
    IN IF currentDelay # 0 /\ ~Truthy(s.timeout)
       THEN [Log(s2, [ev |-> "delay", ms |-> currentDelay]) EXCEPT !.pc = "delay"]
       ELSE [s2 EXCEPT !.pc = "attempt"]

\* A variant that enters the next attempt with retriesLeft unchanged.
ScheduleAttempt_SameRetriesLeft(s, retriesLeft, currentDelay, retryReportBuilder) ==
    LET s1 == [s EXCEPT !.retriesLeft = retriesLeft,
                        !.reportBuilder = retryReportBuilder,
                        !.currentDelay = currentDelay]
        s2 == Log(s1, [ev |-> "retry", currentDelay |-> currentDelay])
    IN IF currentDelay # 0
       THEN [Log(s2, [ev |-> "delay", ms |-> currentDelay]) EXCEPT !.pc = "delay"]
       ELSE [s2 EXCEPT !.pc = "attempt"]

\* The second half of both retry paths: wait currentDelay if it is not 0, then
\* enter attempt() with one retry less and the builder that records the retry.
ScheduleAttempt(s, retriesLeft, currentDelay, retryReportBuilder) ==
    LET s1 == [s EXCEPT !.retriesLeft = retriesLeft - 1,
                        !.reportBuilder = retryReportBuilder,
                        !.currentDelay = currentDelay]
        s2 == Log(s1, [ev |-> "retry", currentDelay |-> currentDelay])
    IN IF currentDelay # 0
       THEN [Log(s2, [ev |-> "delay", ms |-> currentDelay]) EXCEPT !.pc = "delay"]
       ELSE [s2 EXCEPT !.pc = "attempt"]

handleTimeout(s, reportBuilder, t) ==
    LET s1 == ReadNow(s, t)
        final == withTimeout(reportBuilder, t)
        finalReport == build(final)
        maybeLastError == IF Len(finalReport.errors) > 0 THEN Last(finalReport.errors)
                          ELSE Undefined
    IN IF LoggerThrows
       THEN Throw(s, LoggerFailure)
       ELSE IF buildError(final) # Undefined
       THEN Throw(s1, buildError(final))
       ELSE Throw(invokeOnComplete(Finalize(s1, "timeout", finalReport), finalReport),
                  IF OnCompleteThrows(s) THEN OnCompleteFailure
                  ELSE RetryTimeoutError("Retry timeout exceeded", maybeLastError))

\* A variant that compares the clock with the deadline once fn() has returned.
handleSuccess_ChecksDeadline(s, result, reportBuilder, t) ==
    LET s1 == ReadNow(s, t)
        final == withSuccess(reportBuilder, t)
        finalReport == build(final)
    IN IF isTimedOut(s.timeout, t)
       THEN handleTimeout(s, reportBuilder, t)
       ELSE IF buildError(final) # Undefined
       THEN Throw(s1, buildError(final))
       ELSE IF OnCompleteThrows(s)
       THEN Throw(invokeOnComplete(Finalize(s1, "success", finalReport), finalReport),
                  OnCompleteFailure)
       ELSE [invokeOnComplete(Finalize(s1, "success", finalReport), finalReport)
                EXCEPT !.pc = "resolved", !.result = result, !.stack = <<>>]

handleSuccess(s, result, reportBuilder, t) ==
    LET s1 == ReadNow(s, t)
        final == withSuccess(reportBuilder, t)
        finalReport == build(final)
    IN IF buildError(final) # Undefined
       THEN Throw(s1, buildError(final))
       ELSE IF OnCompleteThrows(s)
       THEN Throw(invokeOnComplete(Finalize(s1, "success", finalReport), finalReport),
                  OnCompleteFailure)
       ELSE [invokeOnComplete(Finalize(s1, "success", finalReport), finalReport)
                EXCEPT !.pc = "resolved", !.result = result, !.stack = <<>>]

\* A variant that wraps the error only when retriesLeft < 0.
handleNonRetryableError_StrictlyNegative(s, error, reportBuilder, retriesLeft, shouldRetry, t) ==
    LET s1 == ReadNow(s, t)
        final == withFailure(reportBuilder, t)
        finalReport == build(final)
        s2 == invokeOnComplete(Finalize(s1, "failure", finalReport), finalReport)
    IN IF buildError(final) # Undefined
       THEN Throw(s1, buildError(final))
       ELSE IF OnCompleteThrows(s)
       THEN Throw(s2, OnCompleteFailure)
       ELSE IF retriesLeft < 0 /\ shouldRetry /\ InstanceOfError(error)
            THEN Throw(s2, RetryAttemptsExceededError(
                              [text |-> "Maximum retry attempts exceeded",
                               retries |-> s.options.retries, inner |-> error.message],
                              error))
            ELSE Throw(s2, error)

handleNonRetryableError(s, error, reportBuilder, retriesLeft, shouldRetry, t) ==
    LET s1 == ReadNow(s, t)
        final == withFailure(reportBuilder, t)
        finalReport == build(final)
        s2 == invokeOnComplete(Finalize(s1, "failure", finalReport), finalReport)
    IN IF buildError(final) # Undefined
       THEN Throw(s1, buildError(final))
       ELSE IF OnCompleteThrows(s)
       THEN Throw(s2, OnCompleteFailure)
       ELSE IF retriesLeft <= 0 /\ shouldRetry /\ InstanceOfError(error)
            THEN Throw(s2, RetryAttemptsExceededError(
                              [text |-> "Maximum retry attempts exceeded",
                               retries |-> s.options.retries, inner |-> error.message],
                              error))
            ELSE Throw(s2, error)

\* A variant that does not record the delay it schedules.
retryAfterError_DelayNotRecorded(s, error, retriesLeft, reportBuilder) ==
    LET currentDelay == calculateDelay(s.options, retriesLeft, s.delay)
        retryReportBuilder ==
            withRetryReason(reportBuilder, "error", error,
                            s.options.sanitizeRetryReasons # Some(FALSE),
                            s.sanitizationThreshold)
    IN ScheduleAttempt(s, retriesLeft, currentDelay, retryReportBuilder)

retryAfterError(s, error, retriesLeft, reportBuilder) ==
    LET currentDelay == calculateDelay(s.options, retriesLeft, s.delay)
        retryReportBuilder ==
            withDelay(withRetryReason(reportBuilder, "error", error,
                                      s.options.sanitizeRetryReasons # Some(FALSE),
                                      s.sanitizationThreshold),
                      currentDelay)
    IN ScheduleAttempt(s, retriesLeft, currentDelay, retryReportBuilder)

\* A variant that does not consult retryOnError.
handleError_IgnoresPredicate(s, error, retriesLeft, reportBuilder, t) ==
    LET errorReportBuilder == withError(reportBuilder, error)
        s1 == [s EXCEPT !.thrown = Undefined]
    IN IF retriesLeft <= 0
       THEN handleNonRetryableError(s1, error, errorReportBuilder, retriesLeft, TRUE, t)
       ELSE retryAfterError(s1, error, retriesLeft, errorReportBuilder)

\* The catch block of the attempt() frame that has retriesLeft retries and whose
\* updatedReportBuilder is reportBuilder.
handleError(s, error, retriesLeft, reportBuilder, t) ==
    LET errorReportBuilder == withError(reportBuilder, error)
        shouldRetry == s.options.retryOnError = "absent"
                       \/ ApplyRetryOnError(s.options.retryOnError, error)
        s1 == [s EXCEPT !.thrown = Undefined]
    IN IF LoggerThrows
       THEN Throw(s, LoggerFailure)
       ELSE IF ~shouldRetry \/ retriesLeft <= 0
       THEN handleNonRetryableError(s1, error, errorReportBuilder, retriesLeft, shouldRetry, t)
       ELSE retryAfterError(s1, error, retriesLeft, errorReportBuilder)

\* A variant that records the retry as one made after an error.
handleRetryableResult_ErrorReason(s, result, retriesLeft, reportBuilder) ==
    LET currentDelay == calculateDelay(s.options, retriesLeft, s.delay)
        retryReportBuilder ==
            withDelay(withRetryReason(reportBuilder, "error", result,
                                      s.options.sanitizeRetryReasons # Some(FALSE),
                                      s.sanitizationThreshold),
                      currentDelay)
        frame == [retriesLeft |-> retriesLeft, reportBuilder |-> reportBuilder]
    IN ScheduleAttempt([s EXCEPT !.stack = Append(@, frame)],
                       retriesLeft, currentDelay, retryReportBuilder)

\* The calling frame stays suspended inside its try block until the attempts
\* made from here have settled.
handleRetryableResult(s, result, retriesLeft, reportBuilder) ==
    LET currentDelay == calculateDelay(s.options, retriesLeft, s.delay)
        retryReportBuilder ==
            withDelay(withRetryReason(reportBuilder, "result", result,
                                      s.options.sanitizeRetryReasons # Some(FALSE),
                                      s.sanitizationThreshold),
                      currentDelay)
        frame == [retriesLeft |-> retriesLeft, reportBuilder |-> reportBuilder]
    IN ScheduleAttempt([s EXCEPT !.stack = Append(@, frame)],
                       retriesLeft, currentDelay, retryReportBuilder)

\* A variant that compares the clock with the deadline before it accepts a
\* result that is not retried.
attemptAfterResult_DeadlineAfterResult(s, result, t1, t2) ==
    LET flagged == s.options.retryOnResult # "absent"
                   /\ ApplyRetryOnResult(s.options.retryOnResult, result)
        done == handleSuccess(s, result, s.reportBuilder, t1)
    IN IF flagged /\ s.retriesLeft > 0
       THEN handleRetryableResult(s, result, s.retriesLeft, s.reportBuilder)
       ELSE IF isTimedOut(s.timeout, t1)
            THEN handleTimeout(ReadNow(s, t1), s.reportBuilder, t2)
            ELSE done

\* A variant that returns handleSuccess(...) after the try block, so that what
\* onComplete throws there leaves this attempt uncaught.
attemptAfterResult_SuccessOutsideTry(s, result, t1, t2) ==
    LET flagged == s.options.retryOnResult # "absent"
                   /\ ApplyRetryOnResult(s.options.retryOnResult, result)
        done == handleSuccess(s, result, s.reportBuilder, t1)
    IN IF flagged /\ s.retriesLeft > 0
       THEN handleRetryableResult(s, result, s.retriesLeft, s.reportBuilder)
       ELSE IF flagged /\ JsonLength(result) < 0
            THEN handleError(s, StringifyTypeError, s.retriesLeft, s.reportBuilder, t1)
            ELSE done

\* What attempt() does once fn() has returned result.
attemptAfterResult(s, result, t1, t2) ==
    LET flagged == s.options.retryOnResult # "absent"
                   /\ ApplyRetryOnResult(s.options.retryOnResult, result)
        done == handleSuccess(s, result, s.reportBuilder, t1)
    IN IF flagged /\ s.retriesLeft > 0
       THEN handleRetryableResult(s, result, s.retriesLeft, s.reportBuilder)
       ELSE IF flagged /\ JsonLength(result) < 0
            \* logger.debug(`... ${JSON.stringify(result)}`) throws inside the try
            THEN handleError(s, StringifyTypeError, s.retriesLeft, s.reportBuilder, t1)
            ELSE IF done.pc = "throwing"
                 THEN handleError(done, done.thrown, s.retriesLeft, s.reportBuilder, t2)
                 ELSE done

\* ------------------------------------------------------------------ actions
\* The clock after a step that took call c from s to s2 and was offered the
\* readings t1 and then t2.
ClockAfter(s, s2, t1, t2) ==
    IF s2.nowReads = s.nowReads THEN clock
    ELSE IF s2.nowReads = s.nowReads + 1 THEN t1 ELSE t2

\* A variant that counts the deadline from the last reading any call made.
Retry_SharedDeadline(c) ==
    /\ c \in callers
    /\ call[c].pc = "idle"
    /\ LET s == call[c]
           o == s.options
       IN IF validateOptions(o) # Undefined
          THEN /\ call' = [call EXCEPT ![c] = [s EXCEPT !.pc = "rejected",
                                                          !.result = validateOptions(o)]]
               /\ UNCHANGED clock
          ELSE \E t1 \in Readings(clock) : \E t2 \in Readings(t1) :
                 LET sa == IF Truthy(o.timeout) THEN ReadNow(s, t1) ELSE s
                     start == IF Truthy(o.timeout) THEN t2 ELSE t1
                     s2 == [ReadNow(sa, start) EXCEPT
                              !.pc = "attempt",
                              !.retriesLeft = Max(0, o.retries),
                              !.delay = Max(0, IF IsPresent(o.delay) THEN Get(o.delay) ELSE 0),
                              !.timeout = IF Truthy(o.timeout) THEN Some(clock + Get(o.timeout))
                                          ELSE Absent,
                              !.sanitizationThreshold =
                                  IF IsPresent(o.sanitizationThreshold)
                                  THEN Get(o.sanitizationThreshold) ELSE DefaultThreshold,
                              !.reportBuilder = NewRetryReportBuilder(start)]
                 IN /\ call' = [call EXCEPT ![c] = s2]
                    /\ clock' = start
    /\ UNCHANGED <<timer, logger, callers, heap>>

\* retry(fn, options), up to its call of attempt().
Retry(c) ==
    /\ c \in callers
    /\ call[c].pc = "idle"
    /\ LET s == call[c]
           o == s.options
       IN IF validateOptions(o) # Undefined
          THEN /\ call' = [call EXCEPT ![c] = [s EXCEPT !.pc = "rejected",
                                                          !.result = validateOptions(o)]]
               /\ UNCHANGED clock
          ELSE \E t1 \in Readings(clock) : \E t2 \in Readings(t1) :
                 LET sa == IF Truthy(o.timeout) THEN ReadNow(s, t1) ELSE s
                     start == IF Truthy(o.timeout) THEN t2 ELSE t1
                     s2 == [ReadNow(sa, start) EXCEPT
                              !.pc = "attempt",
                              !.retriesLeft = Max(0, o.retries),
                              !.delay = Max(0, IF IsPresent(o.delay) THEN Get(o.delay) ELSE 0),
                              !.timeout = IF Truthy(o.timeout) THEN Some(t1 + Get(o.timeout))
                                          ELSE Absent,
                              !.sanitizationThreshold =
                                  IF IsPresent(o.sanitizationThreshold)
                                  THEN Get(o.sanitizationThreshold) ELSE DefaultThreshold,
                              !.reportBuilder = NewRetryReportBuilder(start)]
                 IN /\ call' = [call EXCEPT ![c] = s2]
                    /\ clock' = start
    /\ UNCHANGED <<timer, logger, callers, heap>>

\* attempt(), up to its call of fn().
Attempt(c) ==
    /\ call[c].pc = "attempt"
    /\ \E t1 \in Readings(clock) : \E t2 \in Readings(t1) :
         LET s == call[c]
             updatedReportBuilder == withAttempt(s.reportBuilder)
             checked == IF Truthy(s.timeout)
                        THEN Log(ReadNow(s, t1), [ev |-> "check", now |-> t1,
                                                  deadline |-> Get(s.timeout)])
                        ELSE s
             s2 == IF isTimedOut(s.timeout, t1)
                   THEN handleTimeout(checked, updatedReportBuilder, t2)
                   ELSE IF LoggerThrows
                   \* logger.debug throws inside the try, before fn() is called
                   THEN handleError([checked EXCEPT !.reportBuilder = updatedReportBuilder],
                                    LoggerFailure, s.retriesLeft, updatedReportBuilder, t2)
                   ELSE [Log(checked, [ev |-> "invoke", n |-> s.invocations + 1]) EXCEPT
                           !.pc = "fn", !.reportBuilder = updatedReportBuilder,
                           !.invocations = @ + 1]
         IN /\ call' = [call EXCEPT ![c] = s2]
            /\ clock' = ClockAfter(s, s2, t1, t2)
    /\ UNCHANGED <<timer, logger, callers, heap>>

\* fn() resolves with result.
FnReturns(c) ==
    /\ call[c].pc = "fn"
    /\ \E result \in Results : \E t1 \in Readings(clock) : \E t2 \in Readings(t1) :
         LET s == call[c]
             n == IF ApplyRetryOnResult(s.options.retryOnResult, result) THEN 1 ELSE 0
             s1 == [Log(s, [ev |-> "returned", value |-> result, retriesLeft |-> s.retriesLeft])
                       EXCEPT !.flagged = @ + n]
             s2 == attemptAfterResult(s1, result, t1, t2)
         IN /\ \/ n = 0
               \/ s1.flagged <= MaxFlagged
               \/ s.throws = 0 /\ s1.flagged <= s.options.retries + 1
            /\ call' = [call EXCEPT ![c] = s2]
            /\ clock' = ClockAfter(s, s2, t1, t2)
    /\ UNCHANGED <<timer, logger, callers, heap>>

\* The values invocation number n of the operation can throw.
Throwables(n) == {OpError(m, n) : m \in ErrorMessages} \cup {OpThrownObject(n)}

\* fn() rejects with error.
FnThrows(c) ==
    /\ call[c].pc = "fn"
    /\ \/ call[c].throws < MaxThrows
       \/ call[c].flagged = 0 /\ call[c].throws < call[c].options.retries + 1
    /\ \E error \in Throwables(call[c].invocations) : \E t \in Readings(clock) :
         LET s == call[c]
             s1 == [Log(s, [ev |-> "threw", error |-> error, retriesLeft |-> s.retriesLeft]) EXCEPT !.throws = @ + 1]
             s2 == handleError(s1, error, s.retriesLeft, s.reportBuilder, t)
         IN /\ call' = [call EXCEPT ![c] = s2]
            /\ clock' = ClockAfter(s, s2, t, t)
    /\ UNCHANGED <<timer, logger, callers, heap>>

\* timer.delay(currentDelay) resolves.
DelayDone(c) ==
    /\ call[c].pc = "delay"
    /\ call' = [call EXCEPT ![c] = [Log(call[c], [ev |-> "delayDone"]) EXCEPT !.pc = "attempt"]]
    /\ UNCHANGED <<clock, timer, logger, callers, heap>>

\* A variant in which an error thrown by an attempt reached through a retry
\* passes every enclosing frame and rejects the call.
Propagate_PastEveryFrame(c) ==
    /\ call[c].pc = "throwing"
    /\ call' = [call EXCEPT ![c] = [call[c] EXCEPT !.pc = "rejected",
                                                    !.result = call[c].thrown,
                                                    !.thrown = Undefined, !.stack = <<>>]]
    /\ UNCHANGED <<clock, timer, logger, callers, heap>>

\* An error leaves an attempt() frame: the innermost frame suspended in its try
\* block catches it, and with no such frame the promise of retry() rejects.
Propagate(c) ==
    /\ call[c].pc = "throwing"
    /\ \E t \in Readings(clock) :
         LET s == call[c]
             frame == Last(s.stack)
             s2 == IF s.stack = <<>>
                   THEN [s EXCEPT !.pc = "rejected", !.result = s.thrown, !.thrown = Undefined]
                   ELSE handleError([s EXCEPT !.stack = SubSeq(@, 1, Len(@) - 1)],
                                    s.thrown, frame.retriesLeft, frame.reportBuilder, t)
         IN /\ call' = [call EXCEPT ![c] = s2]
            /\ clock' = ClockAfter(s, s2, t, t)
    /\ UNCHANGED <<timer, logger, callers, heap>>

Init ==
    /\ \E o \in Policies : call = [c \in CallIds |-> IdleCall(IF c = 1 THEN o ELSE DefaultPolicy)]
    /\ clock = 0
    /\ timer = "monotonic"
    /\ logger = "returns"
    /\ callers = {1}
    /\ heap = EmptyHeap

Next ==
    \E c \in CallIds :
        \/ Retry(c)
        \/ Attempt(c)
        \/ FnReturns(c)
        \/ FnThrows(c)
        \/ DelayDone(c)
        \/ Propagate(c)

Spec == Init /\ [][Next]_vars

\* Two calls on the same service, with the same policy object or with two.
InitConcurrent ==
    /\ \E o1, o2 \in ConcurrentPolicies :
          /\ o2 = o1 \/ IsPresent(o2.timeout)
          /\ call = [c \in CallIds |-> IdleCall(IF c = 1 THEN o1 ELSE o2)]
    /\ clock = 0
    /\ timer = "monotonic"
    /\ logger = "returns"
    /\ callers = CallIds
    /\ heap = EmptyHeap

SpecConcurrent == InitConcurrent /\ [][Next]_vars

\* One call with a delay between attempts and a deadline.
DeadlinePolicies ==
    [retries : {1}, delay : {Some(1)}, exponentialBackoff : {FALSE},
     retryOnError : RetryOnErrorChoices, retryOnResult : RetryOnResultChoices,
     timeout : {Some(1)}, onComplete : {"returns"},
     sanitizeRetryReasons : {Absent}, sanitizationThreshold : {Absent}]

InitDeadline ==
    /\ \E o \in DeadlinePolicies :
          call = [c \in CallIds |-> IdleCall(IF c = 1 THEN o ELSE DefaultPolicy)]
    /\ clock = 0
    /\ timer = "monotonic"
    /\ logger = "returns"
    /\ callers = {1}
    /\ heap = EmptyHeap

SpecDeadline == InitDeadline /\ [][Next]_vars

\* One call under the scheduling of the runtime: a continuation that
\* can run does run, every invocation of the operation settles and every
\* timer.delay completes.
Fairness ==
    \A c \in CallIds :
        /\ WF_vars(Attempt(c) \/ Propagate(c))
        /\ WF_vars(FnReturns(c) \/ FnThrows(c))
        /\ WF_vars(DelayDone(c))

FairPolicies == CorePolicies \cup TimeoutPolicies

InitFair ==
    /\ \E o \in FairPolicies :
          call = [c \in CallIds |-> IdleCall(IF c = 1 THEN o ELSE DefaultPolicy)]
    /\ clock = 0
    /\ timer = "monotonic"
    /\ logger = "returns"
    /\ callers = {1}
    /\ heap = EmptyHeap

SpecFair == InitFair /\ [][Next]_vars /\ Fairness

\* One call whose onComplete callback throws.
HookPolicies ==
    [retries : {0, 1}, delay : {Absent, Some(1)}, exponentialBackoff : {FALSE},
     retryOnError : RetryOnErrorChoices, retryOnResult : RetryOnResultChoices,
     timeout : {Absent}, onComplete : {"throws"},
     sanitizeRetryReasons : {Absent}, sanitizationThreshold : {Absent}]

InitHook ==
    /\ \E o \in HookPolicies :
          call = [c \in CallIds |-> IdleCall(IF c = 1 THEN o ELSE DefaultPolicy)]
    /\ clock = 0
    /\ timer = "monotonic"
    /\ logger = "returns"
    /\ callers = {1}
    /\ heap = EmptyHeap

SpecHook == InitHook /\ [][Next]_vars

\* One call on a service whose injected LogHandler returns or throws.
LoggerPolicies == {o \in CorePolicies \cup TimeoutPolicies : o.retries = 1}

InitLogger ==
    /\ \E o \in LoggerPolicies :
          call = [c \in CallIds |-> IdleCall(IF c = 1 THEN o ELSE DefaultPolicy)]
    /\ clock = 0
    /\ timer = "monotonic"
    /\ logger \in {"returns", "throws"}
    /\ callers = {1}
    /\ heap = EmptyHeap

SpecLogger == InitLogger /\ [][Next]_vars

\* A report builder used on its own, as the retry paths use it: the values
\* of the sanitization tests are recorded as retry reasons under each
\* setting of sanitizeRetryReasons and sanitizationThreshold.
SanitizerValues ==
    {StringValue, NumberValue, NullValue, Undefined, SmallObject, AtThresholdObject,
     OverThresholdObject, LargeObject, CustomClassObject, NoConstructorObject,
     CircularResult, OpError("transient", 1)}

SanitizerPolicies ==
    [retries : {1}, delay : {Absent}, exponentialBackoff : {FALSE},
     retryOnError : {"absent"}, retryOnResult : {"absent"},
     timeout : {Absent}, onComplete : {"absent"},
     sanitizeRetryReasons : {Absent, Some(TRUE), Some(FALSE)},
     sanitizationThreshold : {Absent, Some(0), Some(17), Some(18), Some(10000)}]

InitSanitizer ==
    /\ \E o \in SanitizerPolicies :
          call = [c \in CallIds |->
                    IF c = 1
                    THEN [IdleCall(o) EXCEPT
                            !.pc = "builder",
                            !.sanitizationThreshold =
                                IF IsPresent(o.sanitizationThreshold)
                                THEN Get(o.sanitizationThreshold) ELSE DefaultThreshold]
                    ELSE IdleCall(DefaultPolicy)]
    /\ clock = 0
    /\ timer = "monotonic"
    /\ logger = "returns"
    /\ callers = {1}
    /\ heap = EmptyHeap

\* reportBuilder.withRetryReason(type, value, options.sanitizeRetryReasons !==
\* false, sanitizationThreshold)
WithRetryReason(c) ==
    /\ call[c].pc = "builder"
    /\ Len(call[c].history) < MaxReasons
    /\ \E type \in {"error", "result"} : \E value \in SanitizerValues :
         LET s == call[c]
             s2 == [Log(s, [ev |-> "reason", type |-> type, value |-> value]) EXCEPT
                      !.reportBuilder =
                          withRetryReason(s.reportBuilder, type, value,
                                          s.options.sanitizeRetryReasons # Some(FALSE),
                                          s.sanitizationThreshold)]
         IN call' = [call EXCEPT ![c] = s2]
    /\ UNCHANGED <<clock, timer, logger, callers, heap>>

NextSanitizer == \E c \in CallIds : WithRetryReason(c)

SpecSanitizer == InitSanitizer /\ [][NextSanitizer]_vars

\* ------------------------------------------------- RetryReportBuilder objects
\* A program that holds builders and calls their methods in any order.  Each
\* method is translated with the allocations it makes: a spread copies the
\* fields of a report, array addresses included, and [...array, x] allocates
\* an array.  (The report and the two empty arrays that the constructor called
\* by copyWithUpdates allocates and drops at once are left out.)
Builders == 1..Len(heap.builders)
Objects == Len(heap.builders) + Len(heap.outcomes)
ReportOf(h, b) == h.reports[h.builders[b]]
ReasonsOf(h, r) == IF h.reports[r].retryReasons = 0 THEN <<>>
                   ELSE h.arrays[h.reports[r].retryReasons]

\* new RetryReportBuilder(startTime)
HeapNewBuilder(h, startTime) ==
    [h EXCEPT !.arrays = @ \o << <<>>, <<>> >>,
              !.reports = Append(@, [startTime |-> startTime, totalTime |-> 0, attempts |-> 0,
                                     errors |-> Len(h.arrays) + 1,
                                     delays |-> Len(h.arrays) + 2,
                                     retryingOperationSucceeded |-> FALSE,
                                     timedOut |-> Absent, retryReasons |-> 0]),
              !.builders = Append(@, Len(h.reports) + 1)]

\* builder.report = { ...this.report, ...updates }
copyWithUpdates(h, b, updates) ==
    LET old == ReportOf(h, b)
        new == [f \in DOMAIN old |-> IF f \in DOMAIN updates THEN updates[f] ELSE old[f]]
    IN [h EXCEPT !.reports = Append(@, new), !.builders = Append(@, Len(h.reports) + 1)]

\* [...array, x]
Spread(h, content, x) == [h EXCEPT !.arrays = Append(@, Append(content, x))]

CallWithAttempt(b) ==
    heap' = copyWithUpdates(heap, b, [attempts |-> ReportOf(heap, b).attempts + 1])

\* A variant that pushes the error onto the receiver's array.
CallWithError_InPlace(b) ==
    \E error \in {OpError("transient", 1), OpThrownObject(1)} :
        LET errorObj == IF InstanceOfError(error) THEN error
                        ELSE [kind |-> "Error", message |-> StringOf(error), cause |-> Undefined]
            a == ReportOf(heap, b).errors
            h1 == [heap EXCEPT !.arrays[a] = Append(@, errorObj)]
        IN heap' = copyWithUpdates(h1, b, [errors |-> a])

CallWithError(b) ==
    \E error \in {OpError("transient", 1), OpThrownObject(1)} :
        LET errorObj == IF InstanceOfError(error) THEN error
                        ELSE [kind |-> "Error", message |-> StringOf(error), cause |-> Undefined]
            h1 == Spread(heap, heap.arrays[ReportOf(heap, b).errors], errorObj)
        IN heap' = copyWithUpdates(h1, b, [errors |-> Len(h1.arrays)])

CallWithDelay(b) ==
    \E delay \in {0, 1} :
        LET h1 == Spread(heap, heap.arrays[ReportOf(heap, b).delays], delay)
        IN heap' = copyWithUpdates(h1, b, [delays |-> Len(h1.arrays)])

CallWithRetryReason(b) ==
    \E type \in {"error", "result"} : \E value \in {PendingResult, CircularResult} :
        LET reasons == ReasonsOf(heap, heap.builders[b])
            sanitizedValue == sanitizeForLogging(value, TRUE, DefaultThreshold)
            h1 == Spread(heap, reasons, [type |-> type, value |-> sanitizedValue])
        IN heap' = copyWithUpdates(h1, b, [retryReasons |-> Len(h1.arrays)])

CallWithSuccess(b) ==
    \E currentTime \in Times :
        heap' = copyWithUpdates(heap, b,
                    [retryingOperationSucceeded |-> TRUE,
                     totalTime |-> currentTime - ReportOf(heap, b).startTime])

CallWithTimeout(b) ==
    \E currentTime \in Times :
        heap' = copyWithUpdates(heap, b,
                    [timedOut |-> Some(TRUE),
                     totalTime |-> currentTime - ReportOf(heap, b).startTime])

CallWithFailure(b) ==
    \E currentTime \in Times :
        heap' = copyWithUpdates(heap, b,
                    [retryingOperationSucceeded |-> FALSE,
                     totalTime |-> currentTime - ReportOf(heap, b).startTime])

\* A variant of build() that validates totalTime only.
HeapBuild_TotalTimeOnly(h, r) ==
    IF h.reports[r].totalTime < 0
    THEN [h EXCEPT !.outcomes = Append(@, [of |-> r, report |-> 0,
                                            error |-> buildError(h.reports[r])])]
    ELSE [h EXCEPT !.reports = Append(@, h.reports[r]),
                   !.outcomes = Append(@, [of |-> r, report |-> Len(h.reports) + 1,
                                           error |-> Undefined])]

\* build() on the report at r: throws, or returns { ...this.report }.
HeapBuild(h, r) ==
    IF buildError(h.reports[r]) # Undefined
    THEN [h EXCEPT !.outcomes = Append(@, [of |-> r, report |-> 0,
                                            error |-> buildError(h.reports[r])])]
    ELSE [h EXCEPT !.reports = Append(@, h.reports[r]),
                   !.outcomes = Append(@, [of |-> r, report |-> Len(h.reports) + 1,
                                           error |-> Undefined])]

CallBuild(b) == heap' = HeapBuild(heap, heap.builders[b])

\* RetryService._validateRetryReport(report), on a report the caller wrote.
ValidateRetryReport ==
    \E totalTime \in {-1, 0, 1} : \E attempts \in {-1, 0, 1} :
        LET h1 == [heap EXCEPT
                     !.arrays = @ \o << <<>>, <<>> >>,
                     !.reports = Append(@, [startTime |-> 0, totalTime |-> totalTime,
                                            attempts |-> attempts,
                                            errors |-> Len(heap.arrays) + 1,
                                            delays |-> Len(heap.arrays) + 2,
                                            retryingOperationSucceeded |-> TRUE,
                                            timedOut |-> Absent, retryReasons |-> 0])]
        IN heap' = HeapBuild(h1, Len(h1.reports))

InitBuilder ==
    /\ call = [c \in CallIds |-> IdleCall(DefaultPolicy)]
    /\ clock = 0
    /\ timer = "monotonic"
    /\ logger = "returns"
    /\ callers = {}
    /\ \E startTime \in Times : heap = HeapNewBuilder(EmptyHeap, startTime)

NextBuilder ==
    /\ Objects < MaxObjects
    /\ UNCHANGED <<call, clock, timer, logger, callers>>
    /\ \/ \E b \in Builders :
             \/ CallWithAttempt(b)
             \/ CallWithError(b)
             \/ CallWithDelay(b)
             \/ CallWithRetryReason(b)
             \/ CallWithSuccess(b)
             \/ CallWithTimeout(b)
             \/ CallWithFailure(b)
             \/ CallBuild(b)
       \/ ValidateRetryReport

SpecBuilder == InitBuilder /\ [][NextBuilder]_vars

\* ------------------------------------------------------- reading a history
\* call[c].history lists what call c did, in order:
\*   now        timer.now() was read            check     isTimedOut compared
\*   invoke     fn() was called                 returned, threw   fn() settled
\*   retry      a retry was decided             delay, delayDone  timer.delay
\*   finalize   a final report was built        onComplete        the hook ran
History(c) == call[c].history
Indices(c, ev) == {i \in 1..Len(History(c)) : History(c)[i].ev = ev}
Count(c, ev) == Cardinality(Indices(c, ev))
Settled(c) == call[c].pc \in {"resolved", "rejected"}
Started(c) == call[c].pc # "idle"
LastIndex(c, ev) == CHOOSE i \in Indices(c, ev) : \A j \in Indices(c, ev) : j <= i
\* The last invocation of the operation threw, and no retry was decided after it.
EndedOnThrow(c) ==
    /\ Settled(c)
    /\ Indices(c, "threw") # {}
    /\ \A j \in Indices(c, "invoke") \cup Indices(c, "retry") : j < LastIndex(c, "threw")
\* What retryOnError, absent or not, says of the thrown value e.
Retryable(o, e) == o.retryOnError = "absent" \/ ApplyRetryOnError(o.retryOnError, e)
\* The events of one kind, in order.
Events(c, ev) == SelectSeq(History(c), LAMBDA e : e.ev = ev)
\* What retryOnResult, absent or not, says of the returned value r.
Flagged(o, r) == o.retryOnResult # "absent" /\ ApplyRetryOnResult(o.retryOnResult, r)
\* The reports handed to onComplete and the reports built, in order.
Reports(c) == [i \in 1..Len(Events(c, "finalize")) |-> Events(c, "finalize")[i].report]
\* The entry of report.errors that stands for the thrown value x.
Recorded(x) ==
    IF InstanceOfError(x) THEN x
    ELSE [kind |-> "Error", message |-> StringOf(x), cause |-> Undefined]
\* The policy is one that validation accepts, stated from the data model.
ValidPolicy(o) ==
    /\ o.retries >= 0
    /\ IsPresent(o.delay) => Get(o.delay) >= 0
    /\ IsPresent(o.timeout) => Get(o.timeout) > 0
    /\ IsPresent(o.sanitizationThreshold) => Get(o.sanitizationThreshold) >= 0

\* ------------------------------------------------------------------ claims

\* C1: with a valid policy of n retries, one call to retry() invokes the
\* operation at most n + 1 times, whatever the operation and the clock do.
C1_AtMostRetriesPlusOneInvocations ==
    \A c \in CallIds :
        ValidPolicy(call[c].options) => call[c].invocations <= call[c].options.retries + 1

\* C2: with a valid policy that supplies onComplete, onComplete is never
\* invoked twice, and it has been invoked exactly once when the call has settled.
C2_OnCompleteExactlyOnce ==
    \A c \in CallIds :
        (ValidPolicy(call[c].options) /\ call[c].options.onComplete # "absent") =>
            /\ Count(c, "onComplete") <= 1
            /\ Settled(c) => Count(c, "onComplete") = 1

\* C3: at most one terminal transition finalizes a report in a call, and after
\* it the operation is not invoked and timer.delay is not awaited.
C3_TerminalIsFinal ==
    \A c \in CallIds :
        /\ Count(c, "finalize") <= 1
        /\ \A i \in Indices(c, "finalize") : \A j \in Indices(c, "invoke") \cup Indices(c, "delay") :
               j < i

\* C4: retryOnError absent, no timeout, n retries, and an operation that throws
\* an Error on every call: it is invoked exactly n + 1 times, the call rejects
\* with RetryAttemptsExceededError caused by the last Error thrown, and the
\* completion report has attempts = n + 1, retryingOperationSucceeded = false
\* and n + 1 errors.
C4_Case(c) ==
    /\ Settled(c)
    /\ ValidPolicy(call[c].options)
    /\ call[c].options.retryOnError = "absent"
    /\ ~IsPresent(call[c].options.timeout)
    /\ Count(c, "returned") = 0
    /\ \A i \in Indices(c, "threw") : History(c)[i].error.kind = "Error"

C4_AlwaysThrowingExhaustsRetries ==
    \A c \in CallIds :
        C4_Case(c) =>
            LET n == call[c].options.retries
                h == History(c)
            IN /\ call[c].invocations = n + 1
               /\ Count(c, "threw") = n + 1
               /\ call[c].pc = "rejected"
               /\ call[c].result.kind = "RetryAttemptsExceededError"
               /\ call[c].result.cause = h[LastIndex(c, "threw")].error
               /\ call[c].result.cause.at = n + 1
               /\ Count(c, "finalize") = 1
               /\ \A i \in Indices(c, "finalize") \cup Indices(c, "onComplete") :
                      /\ h[i].report.attempts = n + 1
                      /\ h[i].report.retryingOperationSucceeded = FALSE
                      /\ Len(h[i].report.errors) = n + 1
               /\ call[c].options.onComplete # "absent" => Count(c, "onComplete") = 1

C4_Witness ==
    \E c \in CallIds : C4_Case(c) /\ call[c].options.retries = MaxRetries /\ Count(c, "onComplete") = 1

\* C5: an invocation fails with e, retryOnError is present and returns false
\* for e: the operation is not invoked again and the call rejects with e itself.
C5_NonRetryableErrorSurfacesVerbatim ==
    \A c \in CallIds : \A i \in Indices(c, "threw") :
        LET e == History(c)[i].error
            o == call[c].options
        IN (o.retryOnError # "absent" /\ ~ApplyRetryOnError(o.retryOnError, e)) =>
              /\ \A j \in Indices(c, "invoke") \cup Indices(c, "delay") : j < i
              /\ call[c].pc \in {"throwing", "rejected"}
              /\ call[c].pc = "throwing" => call[c].thrown = e
              /\ call[c].pc = "rejected" => call[c].result = e

C5_Witness ==
    \E c \in CallIds : \E i \in Indices(c, "threw") :
        /\ call[c].options.retryOnError # "absent"
        /\ History(c)[i].error = OpError("fatal", 1)
        /\ History(c)[i].retriesLeft = MaxRetries
        /\ call[c].pc = "rejected"
        /\ call[c].result = OpError("fatal", 1)

\* C6, for thrown values that are Error instances: an invocation fails with an
\* Error e that is retryable while the attempt has no retries left; the call
\* fails with RetryAttemptsExceededError whose cause is e and whose message
\* names the configured retries.
C6_ExhaustedRetriesRaiseAttemptsExceeded ==
    \A c \in CallIds : \A i \in Indices(c, "threw") :
        LET e == History(c)[i].error
            o == call[c].options
        IN (Settled(c) /\ InstanceOfError(e) /\ Retryable(o, e) /\ History(c)[i].retriesLeft <= 0) =>
              /\ call[c].pc = "rejected"
              /\ call[c].result.kind = "RetryAttemptsExceededError"
              /\ call[c].result.cause = e
              /\ call[c].result.message.retries = o.retries

\* C7: the operation throws x, not an Error instance, and the call ends on that
\* throw: the call rejects with x itself, and the final report records as its
\* last error an Error built from String(x), which is not x.
C7_Case(c) ==
    /\ EndedOnThrow(c)
    /\ ~InstanceOfError(History(c)[LastIndex(c, "threw")].error)

C7_NonErrorRaisedAsIsRecordedWrapped ==
    \A c \in CallIds :
        C7_Case(c) =>
            LET h == History(c)
                x == h[LastIndex(c, "threw")].error
            IN /\ call[c].pc = "rejected"
               /\ call[c].result = x
               /\ \E j \in Indices(c, "finalize") : j > LastIndex(c, "threw")
               /\ \A j \in Indices(c, "finalize") \cup Indices(c, "onComplete") :
                      j > LastIndex(c, "threw") =>
                          /\ h[j].report.errors # <<>>
                          /\ Last(h[j].report.errors).kind = "Error"
                          /\ Last(h[j].report.errors).message = StringOf(x)
                          /\ Last(h[j].report.errors) # x

C7_Witness ==
    \E c \in CallIds :
        /\ C7_Case(c)
        /\ call[c].result = OpThrownObject(call[c].invocations)
        /\ Count(c, "onComplete") = 1

\* C8: retry() fails with RetryConfigurationError exactly when retries < 0, or
\* delay is present and < 0, or timeout is present and <= 0, or
\* sanitizationThreshold is present and < 0; then the operation is not
\* invoked, onComplete is not invoked, no report exists and the timer is not read.
C8_Invalid(o) ==
    \/ o.retries < 0
    \/ IsPresent(o.delay) /\ Get(o.delay) < 0
    \/ IsPresent(o.timeout) /\ Get(o.timeout) <= 0
    \/ IsPresent(o.sanitizationThreshold) /\ Get(o.sanitizationThreshold) < 0

C8_ConfigurationErrorIffInvalidPolicy ==
    \A c \in CallIds :
        Started(c) =>
            /\ (call[c].pc = "rejected" /\ call[c].result.kind = "RetryConfigurationError")
                   <=> C8_Invalid(call[c].options)
            /\ C8_Invalid(call[c].options) =>
                   /\ call[c].invocations = 0
                   /\ call[c].nowReads = 0
                   /\ History(c) = <<>>
                   /\ call[c].reportBuilder = IdleCall(call[c].options).reportBuilder

C8_Witness ==
    \E c \in CallIds :
        /\ call[c].pc = "rejected"
        /\ call[c].result.kind = "RetryConfigurationError"
        /\ call[c].options.retries = 0
        /\ call[c].options.timeout = Some(0)
        /\ clock = 0

\* C9: with a timeout (and a timer that never goes back), every invocation
\* directly follows a deadline check whose reading is <= the deadline; a check
\* whose reading is > the deadline is followed by no invocation and the call
\* fails with RetryTimeoutError; a check whose reading is <= the deadline is
\* followed by the invocation.
C9_DeadlineCheckedBeforeEachInvocation ==
    \A c \in CallIds :
        LET h == History(c)
        IN /\ IsPresent(call[c].timeout) =>
                  \A j \in Indices(c, "invoke") :
                      /\ j > 1
                      /\ h[j - 1].ev = "check"
                      /\ h[j - 1].now <= h[j - 1].deadline
           /\ \A i \in Indices(c, "check") :
                  /\ h[i].deadline = Get(call[c].timeout)
                  /\ h[i].now > h[i].deadline =>
                         /\ \A j \in Indices(c, "invoke") : j < i
                         /\ call[c].pc # "resolved"
                         /\ call[c].pc = "rejected" => call[c].result.kind = "RetryTimeoutError"
                  /\ h[i].now <= h[i].deadline =>
                         /\ i < Len(h)
                         /\ h[i + 1].ev = "invoke"

C9_Witness ==
    \E c \in CallIds : \E i, k \in Indices(c, "check") :
        /\ History(c)[i].now = History(c)[i].deadline
        /\ History(c)[k].now > History(c)[k].deadline
        /\ call[c].invocations >= 1
        /\ call[c].pc = "rejected"
        /\ call[c].result.kind = "RetryTimeoutError"

\* C10: a call that fails with RetryTimeoutError carries as cause the error
\* recorded for the most recent failed invocation (the Error thrown, or the
\* Error built from a thrown value that is not one), and no cause when no
\* invocation failed.
C10_TimeoutCauseIsLastInvocationError ==
    \A c \in CallIds :
        (call[c].pc = "rejected" /\ call[c].result.kind = "RetryTimeoutError") =>
            IF Indices(c, "threw") = {}
            THEN call[c].result.cause = Undefined
            ELSE LET e == History(c)[LastIndex(c, "threw")].error
                 IN call[c].result.cause =
                        Last(withError(NewRetryReportBuilder(0), e).errors)

\* C11: no timeout; the operation returns k <= retries flagged results and then
\* a result v that is not flagged, and never throws: the call resolves to v after
\* exactly k + 1 invocations, and the one final report has attempts = k + 1, no
\* errors and exactly k retry reasons, all of type "result", one per flagged
\* result in the order returned.
C11_Case(c) ==
    /\ Settled(c)
    /\ ValidPolicy(call[c].options)
    /\ ~IsPresent(call[c].options.timeout)
    /\ Count(c, "threw") = 0
    /\ Count(c, "returned") >= 1
    /\ Count(c, "returned") - 1 <= call[c].options.retries
    /\ ~Flagged(call[c].options, Last(Events(c, "returned")).value)

C11_FlaggedResultsThenValue ==
    \A c \in CallIds :
        C11_Case(c) =>
            LET returned == Events(c, "returned")
                k == Len(returned) - 1
                v == Last(returned).value
                o == call[c].options
            IN /\ \A i \in 1..k : Flagged(o, returned[i].value)
               /\ call[c].pc = "resolved"
               /\ call[c].result = v
               /\ call[c].invocations = k + 1
               /\ Len(Reports(c)) = 1
               /\ o.onComplete # "absent" =>
                      /\ Count(c, "onComplete") = 1
                      /\ Events(c, "onComplete")[1].report = Reports(c)[1]
               /\ Reports(c)[1].attempts = k + 1
               /\ Reports(c)[1].errors = <<>>
               /\ Reports(c)[1].retryingOperationSucceeded
               /\ IF k = 0
                  THEN Reports(c)[1].retryReasons = Absent
                  ELSE /\ IsPresent(Reports(c)[1].retryReasons)
                       /\ Len(Get(Reports(c)[1].retryReasons)) = k
                       /\ \A i \in 1..k :
                              /\ Get(Reports(c)[1].retryReasons)[i].type = "result"
                              /\ Get(Reports(c)[1].retryReasons)[i].value =
                                     sanitizeForLogging(returned[i].value, TRUE,
                                                        call[c].sanitizationThreshold)

C11_Witness ==
    \E c \in CallIds :
        /\ C11_Case(c)
        /\ Count(c, "returned") = MaxRetries + 1
        /\ call[c].result = OkResult
        /\ Count(c, "onComplete") = 1

\* C12: an invocation returns v, retryOnResult flags v and the attempt has no
\* retries left: the call resolves to v itself, the report built last is the
\* one of a success, no error is raised and the operation is not invoked again.
C12_ExhaustedResultRetryReturnsValue ==
    \A c \in CallIds : \A i \in Indices(c, "returned") :
        LET h == History(c)
            v == h[i].value
        IN (Flagged(call[c].options, v) /\ h[i].retriesLeft <= 0) =>
              /\ call[c].pc = "resolved"
              /\ call[c].result = v
              /\ \A j \in Indices(c, "invoke") : j < i
              /\ Last(Reports(c)).retryingOperationSucceeded
              /\ Last(Events(c, "finalize")).kind = "success"

\* C13: no timeout, no retryOnResult; the operation throws retryable values on
\* its first k <= retries calls and returns v on call k + 1: the call resolves
\* to v after exactly k + 1 invocations, and the one final report has
\* retryingOperationSucceeded = true, attempts = k + 1, the k errors in the
\* order thrown and k delays.
C13_Case(c) ==
    /\ Settled(c)
    /\ ValidPolicy(call[c].options)
    /\ ~IsPresent(call[c].options.timeout)
    /\ call[c].options.retryOnResult = "absent"
    /\ Count(c, "returned") = 1
    /\ Count(c, "threw") <= call[c].options.retries
    /\ \A i \in Indices(c, "threw") : /\ Retryable(call[c].options, History(c)[i].error)
                                      /\ i < LastIndex(c, "returned")

C13_ErrorsThenValue ==
    \A c \in CallIds :
        C13_Case(c) =>
            LET threw == Events(c, "threw")
                k == Len(threw)
                v == Last(Events(c, "returned")).value
            IN /\ call[c].pc = "resolved"
               /\ call[c].result = v
               /\ call[c].invocations = k + 1
               /\ Len(Reports(c)) = 1
               /\ call[c].options.onComplete # "absent" =>
                      /\ Count(c, "onComplete") = 1
                      /\ Events(c, "onComplete")[1].report = Reports(c)[1]
               /\ Reports(c)[1].retryingOperationSucceeded
               /\ Reports(c)[1].attempts = k + 1
               /\ Len(Reports(c)[1].errors) = k
               /\ \A i \in 1..k : Reports(c)[1].errors[i] = Recorded(threw[i].error)
               /\ Len(Reports(c)[1].delays) = k

C13_Witness ==
    \E c \in CallIds :
        /\ C13_Case(c)
        /\ Count(c, "threw") = 2
        /\ Events(c, "threw")[1].error = OpThrownObject(1)
        /\ Events(c, "threw")[2].error = OpError("transient", 2)
        /\ call[c].result = CircularResult
        /\ Count(c, "onComplete") = 1

\* C14: a valid policy with retries = n, delay = d and no timeout; the
\* operation throws a value the policy retries on every call, or returns a
\* flagged result on every call: every final report of the call records the
\* delays [d, 2d, ..., n*d] when exponentialBackoff is true and n times d when
\* it is false.
C14_Case(c) ==
    /\ Settled(c)
    /\ ValidPolicy(call[c].options)
    /\ ~IsPresent(call[c].options.timeout)
    /\ \/ /\ Count(c, "returned") = 0
          /\ \A i \in Indices(c, "threw") : Retryable(call[c].options, History(c)[i].error)
       \/ /\ Count(c, "threw") = 0
          /\ \A i \in Indices(c, "returned") : Flagged(call[c].options, History(c)[i].value)

C14_Delays(o) ==
    LET d == IF IsPresent(o.delay) THEN Get(o.delay) ELSE 0
    IN [k \in 1..o.retries |-> IF o.exponentialBackoff THEN k * d ELSE d]

C14_RecordedDelaysFollowBackoff ==
    \A c \in CallIds :
        C14_Case(c) =>
            /\ Len(Reports(c)) >= 1
            /\ \A i \in 1..Len(Reports(c)) : Reports(c)[i].delays = C14_Delays(call[c].options)

\* C15: with a valid policy a settled call has resolved to the value its last
\* invocation returned, or has rejected with RetryTimeoutError, with
\* RetryAttemptsExceededError, or with the value its last invocation threw; it
\* has not rejected with RetryConfigurationError or RetryReportValidationError.
C15_LastOutcome(c) ==
    History(c)[LastIndex(c, IF Indices(c, "threw") = {} THEN "returned"
                            ELSE IF Indices(c, "returned") = {} THEN "threw"
                            ELSE IF LastIndex(c, "threw") > LastIndex(c, "returned")
                                 THEN "threw" ELSE "returned")]

C15_EndsInOneOfFourWays ==
    \A c \in CallIds :
        (Settled(c) /\ ValidPolicy(call[c].options)) =>
            \/ /\ call[c].pc = "resolved"
               /\ call[c].invocations >= 1
               /\ C15_LastOutcome(c).ev = "returned"
               /\ call[c].result = C15_LastOutcome(c).value
            \/ /\ call[c].pc = "rejected"
               /\ call[c].result.kind \in {"RetryTimeoutError", "RetryAttemptsExceededError"}
            \/ /\ call[c].pc = "rejected"
               /\ call[c].invocations >= 1
               /\ C15_LastOutcome(c).ev = "threw"
               /\ call[c].result = C15_LastOutcome(c).error

\* C16: within one call at most one invocation of the operation is in flight:
\* an invocation starts only after the previous one has settled and after the
\* delay scheduled between the two, if any, has completed; while a delay is
\* awaited no invocation is in flight.
C16_InFlight(c) == Count(c, "invoke") - Count(c, "returned") - Count(c, "threw")

C16_OneInvocationInFlight ==
    \A c \in CallIds :
        LET h == History(c)
        IN /\ C16_InFlight(c) \in {0, 1}
           /\ C16_InFlight(c) = 1 <=> call[c].pc = "fn"
           /\ \A i, j \in Indices(c, "invoke") :
                  i < j => \E k \in Indices(c, "returned") \cup Indices(c, "threw") : i < k /\ k < j
           /\ \A d \in Indices(c, "delay") : \A j \in Indices(c, "invoke") :
                  d < j => \E k \in Indices(c, "delayDone") : d < k /\ k < j
           /\ \A d \in Indices(c, "delay") :
                  \E k \in Indices(c, "returned") \cup Indices(c, "threw") :
                      /\ k < d
                      /\ \A j \in Indices(c, "invoke") : j < k \/ j > d

C16_Witness ==
    \E c \in CallIds :
        /\ Settled(c)
        /\ call[c].invocations = 3
        /\ Count(c, "delayDone") = 2
        /\ Count(c, "threw") >= 1
        /\ Count(c, "returned") >= 1

\* C17: two calls on one service, interleaved where they await the operation
\* and the delay.  The deadline, retriesLeft and report builder of a call are
\* determined by its policy and its own history (two calls with the same
\* policy and the same history agree on them); its start time and deadline come
\* from its own clock readings; and what its builder and reports record - the
\* attempts, the errors, the delays, the retry reasons - are its own
\* invocations, the values its own operation threw in order, and its own retries.
C17_OwnErrors(c) == [i \in 1..Count(c, "threw") |-> Recorded(Events(c, "threw")[i].error)]

C17_IsPrefix(s, u) == Len(s) <= Len(u) /\ \A i \in 1..Len(s) : s[i] = u[i]

C17_Owned(c, b) ==
    /\ b.startTime = History(c)[IF IsPresent(call[c].timeout) THEN 2 ELSE 1].t
    /\ b.attempts \in {Count(c, "invoke"), Count(c, "invoke") + 1}
    /\ C17_IsPrefix(b.errors, C17_OwnErrors(c))
    /\ Len(b.delays) <= Count(c, "retry")
    /\ \A i \in 1..Len(b.delays) : b.delays[i] = Events(c, "retry")[i].currentDelay
    /\ IF IsPresent(b.retryReasons)
       THEN /\ Len(Get(b.retryReasons)) = Len(b.delays)
            /\ \A i \in 1..Len(b.delays) :
                   Get(b.retryReasons)[i] = [type |-> "error", value |-> Events(c, "threw")[i].error]
       ELSE b.delays = <<>>

C17_ConcurrentCallsAreIsolated ==
    /\ \A c, d \in CallIds :
           (call[c].options = call[d].options /\ History(c) = History(d)) =>
               /\ call[c].timeout = call[d].timeout
               /\ call[c].retriesLeft = call[d].retriesLeft
               /\ call[c].reportBuilder = call[d].reportBuilder
    /\ \A c \in CallIds :
           Started(c) =>
               /\ IsPresent(call[c].timeout) =>
                      Get(call[c].timeout) = History(c)[1].t + Get(call[c].options.timeout)
               /\ call[c].retriesLeft = call[c].options.retries - Count(c, "retry")
               /\ C17_Owned(c, call[c].reportBuilder)
               /\ \A i \in 1..Len(Reports(c)) : C17_Owned(c, Reports(c)[i])

C17_Witness ==
    /\ call[1].options = call[2].options
    /\ Settled(1) /\ Settled(2)
    /\ Reports(1)[1].startTime = 0 /\ Reports(1)[1].totalTime = 2
    /\ Reports(2)[1].startTime = 1 /\ Reports(2)[1].totalTime = 0
    /\ Reports(1)[1].errors = <<OpError("transient", 1)>>
    /\ Len(Reports(2)[1].errors) = 2
    /\ Reports(2)[1].errors[2] = OpError("fatal", 2)
    /\ call[1].pc = "resolved" /\ call[2].pc = "rejected"

\* C18: in every report passed to onComplete, errors holds exactly one entry
\* for each invocation of the operation that failed before the report was
\* built, in the order of the failures, and no other entry.
C18_FailuresBefore(c, i) ==
    SelectSeq(SubSeq(History(c), 1, i), LAMBDA e : e.ev = "threw")

C18_ErrorsAreTheFailedInvocations ==
    \A c \in CallIds : \A i \in Indices(c, "onComplete") :
        LET failed == C18_FailuresBefore(c, i)
            errors == History(c)[i].report.errors
        IN /\ Len(errors) = Len(failed)
           /\ \A k \in 1..Len(errors) : errors[k] = Recorded(failed[k].error)

\* C19: in every report passed to onComplete, attempts is the number of
\* invocations of the operation made so far in the call, plus one when the
\* report is the one of a timeout (detected before an invocation); so the
\* invocations never exceed attempts, and attempts >= 1.
C19_InvocationsBefore(c, i) ==
    Len(SelectSeq(SubSeq(History(c), 1, i), LAMBDA e : e.ev = "invoke"))

C19_AttemptsCountInvocations ==
    \A c \in CallIds : \A i \in Indices(c, "onComplete") :
        LET report == History(c)[i].report
        IN /\ report.attempts = C19_InvocationsBefore(c, i)
                                    + (IF report.timedOut = Some(TRUE) THEN 1 ELSE 0)
           /\ C19_InvocationsBefore(c, i) <= report.attempts
           /\ report.attempts >= 1

\* C20: once the call has settled, every report that was passed to onComplete
\* agrees with the outcome: retryingOperationSucceeded is true exactly when
\* the call resolved, timedOut is true exactly when the call rejected with
\* RetryTimeoutError and is absent otherwise, and the two are never both true.
C20_FlagsAgreeWithOutcome ==
    \A c \in CallIds : \A i \in Indices(c, "onComplete") :
        LET report == History(c)[i].report
        IN /\ ~(report.retryingOperationSucceeded /\ report.timedOut = Some(TRUE))
           /\ report.timedOut \in {Absent, Some(TRUE)}
           /\ Settled(c) =>
                  /\ report.retryingOperationSucceeded <=> call[c].pc = "resolved"
                  /\ report.timedOut = Some(TRUE) <=>
                         (call[c].pc = "rejected" /\ call[c].result.kind = "RetryTimeoutError")

\* C21: in every report passed to onComplete, startTime is the reading of the
\* clock the call took for its report when it started, and totalTime is the
\* reading taken at the terminal transition minus startTime, whether the
\* report is one of a success, a failure or a timeout.
C21_StartIndex(c) == IF Truthy(call[c].options.timeout) THEN 2 ELSE 1

C21_ReportTimesAreClockReadings ==
    \A c \in CallIds : \A i \in Indices(c, "onComplete") :
        LET h == History(c)
            report == h[i].report
        IN /\ h[C21_StartIndex(c)].ev = "now"
           /\ h[i - 1].ev = "finalize" /\ h[i - 1].kind \in {"success", "failure", "timeout"}
           /\ h[i - 2].ev = "now"
           /\ report.startTime = h[C21_StartIndex(c)].t
           /\ report.totalTime = h[i - 2].t - report.startTime

C21_Witness ==
    \E i \in Indices(1, "onComplete") :
        /\ History(1)[i - 1].kind = "timeout"
        /\ History(1)[i].report.startTime = 1
        /\ History(1)[i].report.totalTime = 1

\* C22: when a call with a valid policy and an onComplete hook has settled,
\* the hook was invoked with the finalized report before the call settled;
\* and when that report is one of a failure, its last errors entry stands
\* for the error that ended the call: the error the call rejected with, or
\* its cause when the call rejected with RetryAttemptsExceededError.
C22_EndingError(c) ==
    IF call[c].result.kind = "RetryAttemptsExceededError" THEN call[c].result.cause
    ELSE call[c].result

C22_ReportPrecedesOutcome ==
    \A c \in CallIds :
        (Settled(c) /\ ValidPolicy(call[c].options) /\ call[c].options.onComplete # "absent") =>
            /\ Indices(c, "onComplete") # {}
            /\ LET i == LastIndex(c, "onComplete")
                   report == History(c)[i].report
               IN History(c)[i - 1].kind = "failure" =>
                      /\ call[c].pc = "rejected"
                      /\ Len(report.errors) > 0
                      /\ Last(report.errors) = Recorded(C22_EndingError(c))

\* C23: in every report passed to onComplete, retryReasons has exactly one
\* entry for each retry decided before the report was built, in the order of
\* the decisions; the entry's type is "result" when the retry was decided on
\* a flagged result and "error" when it was decided on a failed invocation.
C23_DecisionTypes(c, i) ==
    LET h == History(c)
        decided == SelectSeq([j \in 1..i |-> j], LAMBDA j : h[j].ev = "retry")
    IN [k \in 1..Len(decided) |->
           IF h[decided[k] - 1].ev = "returned" THEN "result" ELSE "error"]

C23_ReasonsAreTheRetryDecisions ==
    \A c \in CallIds : \A i \in Indices(c, "onComplete") :
        LET report == History(c)[i].report
            reasons == IF IsPresent(report.retryReasons) THEN Get(report.retryReasons) ELSE <<>>
            types == C23_DecisionTypes(c, i)
        IN /\ Len(reasons) = Len(types)
           /\ \A k \in 1..Len(reasons) : reasons[k].type = types[k]

\* C24: in every report passed to onComplete, delays has exactly one entry
\* for each wait scheduled with timer.delay before the report was built, in
\* the order of the waits, each entry equal to the duration awaited.
C24_Waits(c, i) ==
    LET scheduled == SelectSeq(SubSeq(History(c), 1, i), LAMBDA e : e.ev = "delay")
    IN [k \in 1..Len(scheduled) |-> scheduled[k].ms]

C24_DelaysAreTheWaits ==
    \A c \in CallIds : \A i \in Indices(c, "onComplete") :
        History(c)[i].report.delays = C24_Waits(c, i)

\* C25: whatever LogHandler the service was given, a logger method that
\* throws does not change the call: a call with a valid policy that has
\* settled did not reject with the logger's failure, it finalized a report,
\* and it invoked the operation unless it timed out first.
C25_LoggerFailuresAreSwallowed ==
    \A c \in CallIds :
        (Settled(c) /\ ValidPolicy(call[c].options)) =>
            /\ call[c].result # LoggerFailure
            /\ Count(c, "finalize") >= 1
            /\ call[c].invocations >= 1 \/ Events(c, "finalize")[1].kind = "timeout"

\* What was recorded for the k-th value handed to withRetryReason, and the
\* settings it was recorded under.
Reasons(c) ==
    IF IsPresent(call[c].reportBuilder.retryReasons)
    THEN Get(call[c].reportBuilder.retryReasons) ELSE <<>>
SanitizationEnabled(c) == call[c].options.sanitizeRetryReasons # Some(FALSE)
Threshold(c) ==
    IF IsPresent(call[c].options.sanitizationThreshold)
    THEN Get(call[c].options.sanitizationThreshold) ELSE 500
\* typeof value === "object" && value !== null, for the values of the model.
IsObjectValue(v) == v.kind \notin {"string", "number", "null", "undefined"}
\* The serialized length of an object value, -1 when serialization fails.
SerializedLength(v) == IF v.kind = "object" THEN v.json ELSE JsonLength(v)

\* C26: a retry-reason value is recorded unchanged when sanitization is
\* disabled (whatever the threshold, 0 included), when the value is null or
\* not an object, or when its serialized length is at most the threshold
\* (500 when none is given).
C26_Unchanged(c, v) ==
    \/ ~SanitizationEnabled(c)
    \/ ~IsObjectValue(v)
    \/ SerializedLength(v) >= 0 /\ SerializedLength(v) <= Threshold(c)

C26_SmallOrUnsanitizedValuesAreKept ==
    \A c \in CallIds :
        call[c].pc = "builder" =>
            /\ Len(Reasons(c)) = Len(History(c))
            /\ \A k \in 1..Len(Reasons(c)) :
                   C26_Unchanged(c, History(c)[k].value) =>
                       Reasons(c)[k].value = History(c)[k].value

C26_Witness ==
    /\ call[1].pc = "builder"
    /\ call[1].options.sanitizeRetryReasons = Some(FALSE)
    /\ call[1].options.sanitizationThreshold = Some(0)
    /\ Len(Reasons(1)) = 2
    /\ Reasons(1)[1].value = LargeObject
    /\ Reasons(1)[2].value = CircularResult

\* C27: when sanitization is enabled and the serialized length N of an
\* object is strictly greater than the threshold (so for every object when
\* the threshold is 0), the value recorded is the placeholder string
\* "[Large <TypeName>: <N> chars]", square brackets included, where N is the
\* exact serialized length and TypeName is the name of the value's
\* constructor, or "Object" when there is none.
C27_Case(c, v) ==
    /\ SanitizationEnabled(c)
    /\ IsObjectValue(v)
    /\ SerializedLength(v) > Threshold(c)

C27_TypeName(v) ==
    IF v.kind = "object" THEN (IF v.ctor = "" THEN "Object" ELSE v.ctor) ELSE v.kind

C27_Placeholder(text, v) ==
    [kind |-> "string", id |-> text, objType |-> C27_TypeName(v), chars |-> SerializedLength(v)]

C27_LargeObjectsBecomeBracketedPlaceholder ==
    \A c \in CallIds :
        call[c].pc = "builder" =>
            \A k \in 1..Len(Reasons(c)) :
                C27_Case(c, History(c)[k].value) =>
                    Reasons(c)[k].value = C27_Placeholder("[Large _: _ chars]", History(c)[k].value)

\* C27 as stated: the placeholder is "Large <TypeName>: <N> chars".
C27_LargeObjectsBecomePlaceholder ==
    \A c \in CallIds :
        call[c].pc = "builder" =>
            \A k \in 1..Len(Reasons(c)) :
                C27_Case(c, History(c)[k].value) =>
                    Reasons(c)[k].value = C27_Placeholder("Large _: _ chars", History(c)[k].value)

C27_Witness ==
    /\ call[1].pc = "builder"
    /\ call[1].options.sanitizationThreshold = Some(0)
    /\ Len(Reasons(1)) = 2
    /\ History(1)[1].value = SmallObject
    /\ Reasons(1)[1].value.chars = 18 /\ Reasons(1)[1].value.objType = "Object"
    /\ History(1)[2].value = NoConstructorObject
    /\ Reasons(1)[2].value.chars = 1016 /\ Reasons(1)[2].value.objType = "Object"

\* C28: when JSON.stringify fails on a value that is to be recorded as a retry
\* reason (a circular structure), the value recorded is the fixed string
\* "[Unstringifiable Object]", square brackets included, and the failure does
\* not leave the sanitizer: the retry is decided and recorded as for any
\* other flagged result, and no report holds the value itself.
C28_Fails(v) == IsObjectValue(v) /\ SerializedLength(v) < 0

C28_AfterFlaggedReturn(c, j) ==
    /\ History(c)[j].ev = "returned"
    /\ C28_Fails(History(c)[j].value)
    /\ Flagged(call[c].options, History(c)[j].value)
    /\ History(c)[j].retriesLeft > 0
    /\ SanitizationEnabled(c)
    /\ \A i \in (j + 1)..Len(History(c)) :
           History(c)[i].ev \in {"retry", "delay", "delayDone", "now", "check", "invoke"}

C28_Recorded(c, text) ==
    /\ \A j \in 1..Len(History(c)) :
           C28_AfterFlaggedReturn(c, j) =>
               /\ History(c)[j + 1].ev = "retry"
               /\ Reasons(c) # <<>>
               /\ Last(Reasons(c)) = [type |-> "result",
                                      value |-> [kind |-> "string", id |-> text]]
    /\ \A i \in 1..Len(Reports(c)) :
           IsPresent(Reports(c)[i].retryReasons) =>
               \A k \in 1..Len(Get(Reports(c)[i].retryReasons)) :
                   ~C28_Fails(Get(Reports(c)[i].retryReasons)[k].value)

C28_SerializationFailureBecomesBracketedPlaceholder ==
    \A c \in CallIds : C28_Recorded(c, "[Unstringifiable Object]")

\* C28 as stated: the placeholder is the string "Unstringifiable Object".
C28_SerializationFailureBecomesPlaceholder ==
    \A c \in CallIds : C28_Recorded(c, "Unstringifiable Object")

C28_Witness ==
    /\ call[1].pc = "resolved"
    /\ call[1].result = OkResult
    /\ History(1)[3].ev = "returned" /\ History(1)[3].value = CircularResult
    /\ Len(Reports(1)) = 1
    /\ Get(Reports(1)[1].retryReasons)
           = <<[type |-> "result", value |-> [kind |-> "string", id |-> "[Unstringifiable Object]"]]>>

\* C29: an error raised by an attempt that was reached through a result-based
\* retry (raised after the report was finalized and onComplete ran) is caught
\* by the enclosing attempt() frame and handled as if the operation had
\* thrown it there: it is appended to the errors of that frame's builder, and
\* when it is retryable and the frame has retries left the operation is
\* retried from that frame; otherwise the frame finalizes its own report and
\* throws in its turn.
C29_CaughtBy(c, frame) ==
    LET s == call[c]
        s2 == call'[c]
        h2 == s2.history
        errors == Append(frame.reportBuilder.errors, Recorded(s.thrown))
    IN /\ History(c)[Len(History(c))].ev \in {"finalize", "onComplete"}
       /\ s2.stack = SubSeq(s.stack, 1, Len(s.stack) - 1)
       /\ IF Retryable(s.options, s.thrown) /\ frame.retriesLeft > 0
          THEN /\ s2.pc \in {"attempt", "delay"}
               /\ s2.retriesLeft = frame.retriesLeft - 1
               /\ s2.reportBuilder.errors = errors
               /\ h2[Len(History(c)) + 1].ev = "retry"
          ELSE /\ s2.pc = "throwing"
               /\ \E i \in {Len(h2) - 1, Len(h2)} :
                      /\ h2[i].ev = "finalize" /\ h2[i].kind = "failure"
                      /\ h2[i].report.errors = errors

C29_EnclosingFrameHandlesLaterErrors ==
    [][\A c \in CallIds :
          (call[c].pc = "throwing" /\ call[c].stack # <<>> /\ call'[c] # call[c]) =>
              C29_CaughtBy(c, Last(call[c].stack))]_vars

C29_Witness ==
    \E i \in Indices(1, "onComplete") :
        /\ History(1)[i].report.timedOut = Some(TRUE)
        /\ i < Len(History(1))
        /\ History(1)[i + 1].ev = "retry"
        /\ call[1].reportBuilder.errors
               = <<RetryTimeoutError("Retry timeout exceeded", Undefined)>>
        /\ Count(1, "retry") = 2

\* C30: the deadline of a call with a timeout is startTime + timeout, where
\* startTime is the start time recorded in the report, whatever the clock
\* reads.
C30_DeadlineIsStartTimePlusTimeout ==
    \A c \in CallIds :
        (Started(c) /\ call[c].pc # "builder" /\ IsPresent(call[c].timeout)) =>
            Get(call[c].timeout)
                = call[c].reportBuilder.startTime + Get(call[c].options.timeout)

\* C31: the deadline never aborts an invocation in progress.  Every
\* invocation that was started settles, and what follows it is a retry or a
\* finalization as a success or a failure, never as a timeout; and once a
\* reading of the clock is past the deadline no invocation is started.
C31_Deadline(c) == Get(call[c].timeout)

C31_InvocationsRunToCompletion ==
    \A c \in CallIds :
        LET h == History(c)
        IN /\ \A i \in Indices(c, "invoke") :
                  /\ i < Len(h) => h[i + 1].ev \in {"returned", "threw"}
                  /\ i = Len(h) => call[c].pc = "fn"
                  /\ IsPresent(call[c].timeout) =>
                         \A j \in 1..i : h[j].ev = "now" => h[j].t <= C31_Deadline(c)
           /\ \A i \in Indices(c, "returned") \cup Indices(c, "threw") :
                  /\ i < Len(h)
                  /\ h[i + 1].ev \in {"retry", "now"}
                  /\ h[i + 1].ev = "now" =>
                         /\ h[i + 2].ev = "finalize"
                         /\ h[i + 2].kind \in {"success", "failure"}

C31_Witness ==
    LET h == History(1)
    IN /\ Len(h) >= 11
       /\ h[5].ev = "invoke" /\ h[6].ev = "threw" /\ h[7].ev = "retry"
       /\ h[8].ev = "now" /\ h[8].t > C31_Deadline(1)
       /\ h[9].ev = "check"
       /\ h[11].ev = "finalize" /\ h[11].kind = "timeout"
       /\ call[1].invocations = 1

\* C32: when the delay computed for a retry is 0, timer.delay is not called
\* and the next attempt follows directly; when it is greater than 0,
\* timer.delay is called exactly once, with that delay, and the next attempt
\* starts only after it has completed.
C32_AttemptStarts(e) == e.ev \in {"now", "invoke"}

C32_DelayCalledOnlyWhenPositive ==
    \A c \in CallIds :
        LET h == History(c)
        IN /\ \A j \in Indices(c, "retry") :
                  IF h[j].currentDelay = 0
                  THEN /\ j < Len(h) => C32_AttemptStarts(h[j + 1])
                       /\ j = Len(h) => call[c].pc = "attempt"
                  ELSE /\ j < Len(h)
                       /\ h[j + 1].ev = "delay" /\ h[j + 1].ms = h[j].currentDelay
                       /\ j + 1 = Len(h) => call[c].pc = "delay"
                       /\ j + 1 < Len(h) => h[j + 2].ev = "delayDone"
                       /\ j + 2 < Len(h) => C32_AttemptStarts(h[j + 3])
           /\ \A i \in Indices(c, "delay") : h[i - 1].ev = "retry" /\ h[i].ms > 0
           /\ \A i \in Indices(c, "delayDone") : h[i - 1].ev = "delay"

C32_Witness ==
    LET h == History(1)
    IN /\ call[1].options.delay = Absent
       /\ Len(h) >= 2
       /\ Count(1, "retry") = 1 /\ Count(1, "delay") = 0
       /\ h[Len(h) - 1].ev = "retry" /\ h[Len(h)].ev = "invoke"
       /\ h[Len(h) - 1].currentDelay = 0
       /\ call[1].invocations = 2

\* What a program reads through the report at address r: its fields, the
\* arrays followed to their content.
View(h, r) ==
    [h.reports[r] EXCEPT !.errors = h.arrays[@], !.delays = h.arrays[@],
                         !.retryReasons = IF @ = 0 THEN Absent ELSE Some(h.arrays[@])]

\* C33: every RetryReportBuilder operation returns a new object and leaves
\* what every existing builder holds unchanged, its errors, delays and
\* retryReasons included; and a report that build() returned is not changed
\* by any operation made afterwards.
C33_Returned(h) == {h.outcomes[k].report : k \in 1..Len(h.outcomes)} \ {0}

C33_BuilderOperationsCopy ==
    [][/\ Len(heap'.builders) + Len(heap'.outcomes) = Objects + 1
       /\ \A b \in Builders :
              /\ heap'.builders[b] = heap.builders[b]
              /\ View(heap', heap.builders[b]) = View(heap, heap.builders[b])
       /\ \A r \in C33_Returned(heap) : View(heap', r) = View(heap, r)
       /\ Len(heap'.builders) > Len(heap.builders) =>
              heap'.builders[Len(heap'.builders)] = Len(heap'.reports)
       /\ \A r \in C33_Returned(heap') \ C33_Returned(heap) :
              /\ r = Len(heap'.reports)
              /\ r \notin {heap'.builders[b] : b \in 1..Len(heap'.builders)}]_vars

C33_Witness ==
    /\ Len(heap.builders) = 2
    /\ Len(heap.outcomes) = 1
    /\ heap.outcomes[1].report # 0
    /\ View(heap, heap.builders[1]).errors = <<>>
    /\ View(heap, heap.builders[2]).errors = <<OpError("transient", 1)>>
    /\ View(heap, heap.outcomes[1].report).errors = <<>>

\* C34: build(), and _validateRetryReport which calls it, fails with
\* RetryReportValidationError exactly when the report's totalTime or attempts
\* is negative, and otherwise returns a report with the field values of the
\* report it was called on.
C34_BuildValidatesAndCopies ==
    \A k \in 1..Len(heap.outcomes) :
        LET o == heap.outcomes[k]
            report == heap.reports[o.of]
        IN IF report.totalTime < 0 \/ report.attempts < 0
           THEN o.report = 0 /\ o.error.kind = "RetryReportValidationError"
           ELSE /\ o.error = Undefined
                /\ o.report # 0
                /\ View(heap, o.report) = View(heap, o.of)

C34_Witness ==
    /\ Len(heap.builders) = 2 /\ Len(heap.outcomes) = 1
    /\ heap.outcomes[1].of = heap.builders[2]
    /\ heap.reports[heap.outcomes[1].of].totalTime = -1
    /\ heap.reports[heap.outcomes[1].of].retryingOperationSucceeded
    /\ heap.outcomes[1].error
           = RetryReportValidationError("Invalid report: totalTime cannot be negative")

\* C35: with a timer whose now() never decreases, no report the engine
\* finalizes has a negative totalTime or attempts, and
\* RetryReportValidationError is neither thrown inside a call, recorded in a
\* report, nor the error a call rejects with.
C35_IsValidationError(e) == e.kind = "RetryReportValidationError"

C35_ValidationErrorUnreachable ==
    \A c \in CallIds :
        timer = "monotonic" =>
            /\ \A i \in 1..Len(Reports(c)) :
                   /\ Reports(c)[i].totalTime >= 0 /\ Reports(c)[i].attempts >= 0
                   /\ \A k \in 1..Len(Reports(c)[i].errors) :
                          ~C35_IsValidationError(Reports(c)[i].errors[k])
            /\ call[c].reportBuilder.attempts >= 0
            /\ ~C35_IsValidationError(call[c].thrown)
            /\ ~C35_IsValidationError(call[c].result)

C35_Witness ==
    /\ timer = "monotonic"
    /\ call[1].pc = "resolved"
    /\ Len(Reports(1)) = 1
    /\ Reports(1)[1].startTime = 2 /\ Reports(1)[1].totalTime = 0
    /\ Reports(1)[1].attempts = 2

\* C36: in every report passed to onComplete, the number of delays equals
\* the number of retry reasons (0 when retryReasons is absent) and equals
\* attempts - 1.
C36_ReasonCount(report) ==
    IF IsPresent(report.retryReasons) THEN Len(Get(report.retryReasons)) ELSE 0

C36_DelaysReasonsAttemptsAgree ==
    \A c \in CallIds : \A i \in Indices(c, "onComplete") :
        LET report == History(c)[i].report
        IN /\ Len(report.delays) = C36_ReasonCount(report)
           /\ Len(report.delays) = report.attempts - 1

C36_Witness ==
    \E i \in Indices(1, "onComplete") :
        LET report == History(1)[i].report
        IN /\ report.attempts = 3
           /\ Len(report.delays) = 2
           /\ C36_ReasonCount(report) = 2
           /\ Get(report.retryReasons)[1].type = "result"
           /\ Get(report.retryReasons)[2].type = "error"

\* C37: the deadline is not compared with the clock once an invocation has
\* completed.  When an invocation returns a value that retryOnResult does not
\* flag, the call resolves to that value and the report says
\* retryingOperationSucceeded = true with no timedOut flag, also when the
\* clock is past the deadline by then.
C37_ResultAfterDeadlineIsKept ==
    \A c \in CallIds : \A j \in Indices(c, "returned") :
        LET h == History(c)
        IN ~Flagged(call[c].options, h[j].value) =>
               /\ h[j + 1].ev = "now"
               /\ h[j + 2].ev = "finalize" /\ h[j + 2].kind = "success"
               /\ h[j + 2].report.retryingOperationSucceeded
               /\ h[j + 2].report.timedOut = Absent
               /\ call[c].pc = "resolved"
               /\ call[c].result = h[j].value

C37_Witness ==
    \E j \in Indices(1, "returned") :
        /\ IsPresent(call[1].timeout)
        /\ History(1)[j - 2].ev = "check"
        /\ History(1)[j - 2].now = Get(call[1].timeout)
        /\ History(1)[j + 1].ev = "now"
        /\ History(1)[j + 1].t > Get(call[1].timeout)
        /\ call[1].pc = "resolved"
        /\ call[1].result = OkResult

\* C38: the deadline never shortens or skips the delay between attempts.
\* With a deadline and a delay, every retry records the delay computed for
\* it and awaits timer.delay with that value in full, wherever the clock
\* stands; and a report is finalized as a timeout only by the comparison made
\* at the start of an attempt, which found the clock past the deadline.
C38_ExpectedDelay(c) ==
    calculateDelay(call[c].options, call[c].retriesLeft + 1, call[c].delay)

C38_DelayIsAwaitedDespiteDeadline ==
    \A c \in CallIds :
        LET h == History(c)
        IN (IsPresent(call[c].timeout) /\ call[c].delay > 0) =>
               /\ \A j \in Indices(c, "retry") :
                      /\ h[j].currentDelay > 0
                      /\ j < Len(h)
                      /\ h[j + 1].ev = "delay" /\ h[j + 1].ms = h[j].currentDelay
                      /\ j + 1 < Len(h) => h[j + 2].ev = "delayDone"
                      /\ j + 2 < Len(h) =>
                             /\ j + 4 <= Len(h)
                             /\ h[j + 3].ev = "now" /\ h[j + 4].ev = "check"
               /\ call[c].pc = "delay" =>
                      /\ h[Len(h)].ms = C38_ExpectedDelay(c)
                      /\ Last(call[c].reportBuilder.delays) = C38_ExpectedDelay(c)
               /\ \A i \in Indices(c, "finalize") :
                      h[i].kind = "timeout" =>
                          /\ h[i - 1].ev = "now"
                          /\ h[i - 2].ev = "check" /\ h[i - 2].now > h[i - 2].deadline
                          /\ h[i - 3].ev = "now" /\ h[i - 3].t = h[i - 2].now

C38_Witness ==
    LET h == History(1)
    IN /\ call[1].options \in DeadlinePolicies
       /\ Len(h) >= 14
       /\ h[6].ev = "threw" /\ h[7].ev = "retry" /\ h[8].ev = "delay" /\ h[8].ms = 1
       /\ h[9].ev = "delayDone"
       /\ h[10].ev = "now" /\ h[10].t > Get(call[1].timeout)
       /\ h[13].ev = "finalize" /\ h[13].kind = "timeout"
       /\ h[13].report.delays = <<1>>

\* C39: what onComplete throws while a success is finalized is handled as a
\* failure of the operation.  After every success report handed to a throwing
\* onComplete the call does not settle at once: when the thrown error is
\* retryable and retries are left, the error is recorded and a retry follows;
\* otherwise a failure report whose last error is the thrown one is built and
\* handed to onComplete, a second invocation of it.
C39_Retryable(c) ==
    \/ call[c].options.retryOnError = "absent"
    \/ ApplyRetryOnError(call[c].options.retryOnError, OnCompleteFailure)

C39_OnCompleteFailureIsHandledAsFailure ==
    \A c \in CallIds :
        LET h == History(c)
        IN OnCompleteThrows(call[c]) =>
               \A i \in Indices(c, "onComplete") :
                   h[i].report.retryingOperationSucceeded =>
                       /\ h[i - 1].ev = "finalize" /\ h[i - 1].kind = "success"
                       /\ h[i - 3].ev = "returned"
                       /\ i < Len(h)
                       /\ IF C39_Retryable(c) /\ h[i - 3].retriesLeft > 0
                          THEN /\ h[i + 1].ev = "retry"
                               /\ Len(h) <= i + 2 =>
                                      Last(call[c].reportBuilder.errors) = OnCompleteFailure
                               /\ \/ call[c].pc \in {"attempt", "delay"}
                                  \/ \E j \in Indices(c, "invoke") : j > i
                          ELSE /\ i + 3 <= Len(h)
                               /\ h[i + 1].ev = "now"
                               /\ h[i + 2].ev = "finalize" /\ h[i + 2].kind = "failure"
                               /\ Last(h[i + 2].report.errors) = OnCompleteFailure
                               /\ h[i + 3].ev = "onComplete"
                               /\ h[i + 3].report = h[i + 2].report

C39_Witness ==
    LET h == History(1)
    IN /\ OnCompleteThrows(call[1])
       /\ call[1].options.retries = 1
       /\ call[1].options.retryOnError = "absent"
       /\ call[1].pc = "rejected"
       /\ call[1].result = OnCompleteFailure
       /\ Count(1, "invoke") = 2
       /\ Count(1, "onComplete") = 3
       /\ \E i \in Indices(1, "onComplete") :
              /\ h[i].report.retryingOperationSucceeded
              /\ h[i + 1].ev = "retry"

\* C40: every retry() call settles.  Under a valid policy, when every
\* invocation of the operation settles and every timer.delay completes, a
\* call that has started eventually resolves or rejects; and every recursive
\* attempt runs with fewer retries left than the attempt that made it, so the
\* attempts suspended in their try blocks hold strictly more retries, the
\* older the more, than the attempt in progress.
C40_RetriesLeftDecreases(c) ==
    LET st == call[c].stack
    IN /\ \A k \in 1..Len(st) :
              st[k].retriesLeft > 0
              /\ k < Len(st) => st[k].retriesLeft > st[k + 1].retriesLeft
       /\ (call[c].pc \in {"attempt", "delay", "fn"} /\ st # <<>>) =>
              Last(st).retriesLeft > call[c].retriesLeft
       /\ call[c].retriesLeft >= 0
       /\ call[c].retriesLeft <= Max(0, call[c].options.retries)

C40_EveryCallSettles ==
    \A c \in CallIds :
        /\ [](ValidPolicy(call[c].options) => C40_RetriesLeftDecreases(c))
        /\ (ValidPolicy(call[c].options) /\ Started(c)) ~> Settled(c)

C40_Witness ==
    /\ ValidPolicy(call[1].options)
    /\ call[1].options.retries = MaxRetries
    /\ Settled(1)
    /\ Count(1, "retry") >= MaxRetries + 1
    /\ call[1].retriesLeft = 0

====
